---- MODULE Spec2Model ----
(***************************************************************************)
(* SwissSTL: the job front-end (routers/generate.py), the fetchers         *)
(* (services/terrain.py, buildings_dxf.py, roads.py) and the STL generator *)
(* (services/stl_generator.py) as a state machine.                         *)
(*                                                                         *)
(* Units.  Longitudes and latitudes are integers in 1/100 degree.  LV95    *)
(* eastings and northings are integers in metres.  Progress percentages    *)
(* are integers in 1/PScale percent, which represents exactly every value  *)
(* the code writes for the modelled tile counts.                           *)
(***************************************************************************)
EXTENDS Integers, Sequences, FiniteSets, TLC

\* ------------------------------------------------------------------ bounds
\* grid_split values requested: 1..MaxSplit (the schema admits 1..4)
MaxSplit == 2
\* GeoTIFF tiles one STAC terrain query returns: 1..MaxTerrainTiles
MaxTerrainTiles == 2
\* DXF building tiles one STAC building query returns: 0..MaxDxfTiles
MaxDxfTiles == 2
\* 500 m road sub-tiles of one bbox: 1..MaxSubTiles
MaxSubTiles == 1
\* pages of one road sub-tile: 1..MaxPages
MaxPages == 2
MinGridDim == 2
MaxGridDim == 4
\* rows and columns of the grids the mesh builder is run on: 2..MaxMeshDim
MaxMeshDim == 4
\* grid shapes for slicing and decimation: within MaxDimOffset of 2 and of the
\* first multiples of MAX_GRID_DIM
MaxDimOffset == 1
\* fetch tasks of one phase of a job that compete for the permits
MaxFetchTasks == 14
\* tasks or threads of concurrent jobs that want the same cache entry
MaxFetchers == 2

\* ------------------------------------------------------- program constants
MAX_AREA_KM2 == 100
MAX_RETRIES == 3
MAX_GRID_DIM == 1200
ModelWidthMm == 150
ZExaggeration == 1
BaseHeightMm == 2
BuildingMarginUm == 500
RoadRaiseUm == 150
GRID_SPLIT_MAX == 4
PAGE_LIMIT == 200
DOWNLOAD_PERMITS == 10
ROAD_CONCURRENCY == 12
WARN_BOUNDARY_EDGES == 100000
FAIL_BOUNDARY_EDGES == 400000

\* progress unit: 1/PScale percent
PScale == 9 * 16 * 25

JobIds == {"j1"}

\* ------------------------------------------------------------ input samples
BBox(a, b, c, d) == [min_lon |-> a, min_lat |-> b, max_lon |-> c, max_lat |-> d]

\* clip_polygon: None, or a list of [lon, lat] points
NoClip == [given |-> FALSE, pts |-> <<>>]
ClipOf(pts) == [given |-> TRUE, pts |-> pts]
ClipSamples ==
  { NoClip,
    ClipOf(<<>>),
    ClipOf(<< <<592, 4582>> >>),
    ClipOf(<< <<592, 4582>>, <<598, 4582>> >>),
    ClipOf(<< <<592, 4582>>, <<598, 4582>>, <<595, 4588>> >>),
    ClipOf(<< <<592, 4582>>, <<598, 4588>>, <<598, 4582>>, <<592, 4588>> >>) }

\* -------------------------------------------------------- coordinate helpers
\* pyproj EPSG:4326 -> EPSG:2056, linearised around 46.8 N: 0.01 degree of
\* longitude is 760 m, 0.01 degree of latitude is 1112 m
TransformE(lon) == 2600000 + (lon - 744) * 760
TransformN(lat) == 1200000 + (lat - 4695) * 1112

wgs84_to_lv95_bbox(b) ==
  [min_e |-> TransformE(b.min_lon), min_n |-> TransformN(b.min_lat),
   max_e |-> TransformE(b.max_lon), max_n |-> TransformN(b.max_lat)]

\* area in square metres (the code divides by 1e6 to get km2)
estimate_area_m2(b) ==
  LET l == wgs84_to_lv95_bbox(b)
  IN  (l.max_e - l.min_e) * (l.max_n - l.min_n)

_convert_clip_polygon(clip) ==
  IF ~clip.given \/ clip.pts = <<>>
    THEN NoClip
    ELSE ClipOf([i \in 1..Len(clip.pts) |->
                   <<TransformE(clip.pts[i][1]), TransformN(clip.pts[i][2])>>])

\* ------------------------------------------------------- request validation
BBoxInSwitzerland(b) ==
  /\ 590 <= b.min_lon /\ b.min_lon <= 1050
  /\ 590 <= b.max_lon /\ b.max_lon <= 1050
  /\ 4580 <= b.min_lat /\ b.min_lat <= 4790
  /\ 4580 <= b.max_lat /\ b.max_lat <= 4790

\* faulty variant: strict comparisons
BBoxInverted_Strict(b) == b.min_lon > b.max_lon \/ b.min_lat > b.max_lat

BBoxInverted(b) == b.min_lon >= b.max_lon \/ b.min_lat >= b.max_lat

\* the three 400 answers of generate_stl, in the order the handler tests them
RequestRejected(b) ==
  LET
    AreaTooLarge(b0) == estimate_area_m2(b0) > MAX_AREA_KM2 * 1000000
  IN
    \/ ~BBoxInSwitzerland(b)
    \/ BBoxInverted(b)
    \/ AreaTooLarge(b)

\* --------------------------------------------------------- progress formulas
\* dl_progress in get_terrain_grid: 5 + int(done / total * 45)
dl_progress(done, total) == 5 + (done * 45) \div total
\* bp in _generate_single: 40.0 + pct * 0.15
bp(pct) == (4000 + pct * 15) * (PScale \div 100)
\* rp in _generate_single: 55.0 + pct * 0.05
rp(pct) == (5500 + pct * 5) * (PScale \div 100)
\* sp in _generate_single: 60.0 + (pct - 60) * 1.0
sp(pct) == 60 * PScale + (pct - 60) * PScale

\* faulty variant: the share of a row of tiles instead of one tile
progress_per_tile_PerRow(n) == (70 * PScale) \div n

\* progress_per_tile in _generate_grid: 70.0 / total_tiles
progress_per_tile(n) == (70 * PScale) \div (n * n)
\* base_progress in _generate_grid: 20.0 + tile_idx * progress_per_tile
base_progress(n, idx) == 20 * PScale + idx * progress_per_tile(n)

\* the progress the failure handler of process_job writes
FailedProgress == 0 * PScale

\* faulty variant: roads fetched before buildings
SinglePhaseOrder_RoadsFirst == <<"terrain", "roads", "buildings", "stl">>

\* the order of the blocks of _generate_single
SinglePhaseOrder == <<"terrain", "buildings", "roads", "stl">>

\* clip_mask is not None in generate_terrain_stl: a non-empty clip polygon was
\* passed (both callers always pass terrain_lv95_bbox)
ClipMaskPresent(clip_lv95) == clip_lv95.given /\ Len(clip_lv95.pts) > 0

\* faulty variant: no exemption for clipped meshes
IntegrityFails_NoClipExemption(boundary_edges, clip_lv95) ==
  boundary_edges > FAIL_BOUNDARY_EDGES

\* the integrity policy of generate_terrain_stl
IntegrityFails(boundary_edges, clip_lv95) ==
  boundary_edges > FAIL_BOUNDARY_EDGES /\ ~ClipMaskPresent(clip_lv95)

\* Polygon(np.array(clip_polygon_lv95)[:, :2]) in the building branch raises
\* ValueError for a ring of fewer than 3 points
BuildingClipRaises(bmesh, clip_lv95) ==
  bmesh = "some" /\ clip_lv95.given /\ Len(clip_lv95.pts) < 3

\* output files
StlFile(j) == <<j, "stl", 0, 0>>
TileFile(j, row, col) == <<j, "tile", row, col>>
ZipFile(j) == <<j, "zip", 0, 0>>

\* ------------------------------------------------------------------- state
\* ------------------------------------------------------ elevation grids
\* a grid is [rows, cols, cell], cell a function of <<r, c>>, 0-based, row 0
\* the northern row and column 0 the western column
Cells(rows, cols) == (0..(rows - 1)) \X (0..(cols - 1))

NoElevation == [rows |-> 0, cols |-> 0, cell |-> [p \in {} |-> 0]]

\* elevation 500 m plus a step per row and a step per column
ElevationGrid(rows, cols, rv, cv) ==
  [rows |-> rows, cols |-> cols,
   cell |-> [p \in Cells(rows, cols) |-> 500 + 10 * rv[p[1]] + 20 * cv[p[2]]]]

Max2(a, b) == IF a >= b THEN a ELSE b

CeilDiv(a, b) == (a + b - 1) \div b

\* np.nanmin of a grid without NaN
nanmin(e) ==
  CHOOSE m \in {e.cell[p] : p \in DOMAIN e.cell} :
    \A p \in DOMAIN e.cell : m <= e.cell[p]

\* the indices start, start + step, ... below stop: what [start:stop:step] keeps
Strided(start, stop, step) ==
  [i \in 1..CeilDiv(stop - start, step) |-> start + (i - 1) * step]

\* faulty variant: the quotient is rounded down
DecimationStep_Floor(rows, cols) ==
  IF Max2(rows, cols) > MAX_GRID_DIM THEN Max2(rows, cols) \div MAX_GRID_DIM ELSE 1

\* the decimation step of generate_terrain_stl for a rows x cols grid
DecimationStep(rows, cols) ==
  IF Max2(rows, cols) > MAX_GRID_DIM THEN CeilDiv(Max2(rows, cols), MAX_GRID_DIM) ELSE 1

\* z = (elevation - min_elev) * z_scale, in micrometres, with
\* z_scale = model_width_mm / lv95_width * z_exaggeration
ZMicro(elev, min_elev, lv95_width) ==
  ((elev - min_elev) * ModelWidthMm * 1000 * ZExaggeration) \div lv95_width

\* the slice bounds of _generate_grid: the last row and column of tiles take
\* the remainder
SliceStart(k, n, full) == k * (full \div n)

\* faulty variant: the last tile does not take the remainder
SliceEnd_NoRemainder(k, n, full) == (k + 1) * (full \div n)

SliceEnd(k, n, full) == IF k < n - 1 THEN (k + 1) * (full \div n) ELSE full

SliceBBox == BBox(590, 4580, 600, 4590)

BaseZ == 0 - BaseHeightMm * 1000

\* the global_min_elev argument of generate_terrain_stl: None, or a value
NoGlobalMin == [given |-> FALSE, v |-> 0]

\* faulty variant: the argument is left out of the call
GridMinElev_Omitted(v) == NoGlobalMin

\* _generate_grid passes its global_min_elev to every tile's call
GridMinElev(v) == [given |-> TRUE, v |-> v]

\* what generate_terrain_stl computes from tile (row, col): the rows and columns
\* of full_elevation it keeps and the z of each kept sample
TileMesh(e, n, row, col, gme) ==
  LET
    \* the LV95 width of one tile of the n x n split of box b
    TileLv95Width(b, n0) == (wgs84_to_lv95_bbox(b).max_e - wgs84_to_lv95_bbox(b).min_e) \div n0

    \* min_elev = global_min_elev if global_min_elev is not None else nanmin(elevation),
    \* vals the samples of the decimated grid
    MinElev(gme0, vals) ==
      IF gme0.given THEN gme0.v
      ELSE IF vals = {} THEN 0
      ELSE CHOOSE m \in vals : \A w \in vals : m <= w
  IN
    LET r0 == SliceStart(row, n, e.rows)
        r1 == SliceEnd(row, n, e.rows)
        c0 == SliceStart(col, n, e.cols)
        c1 == SliceEnd(col, n, e.cols)
        step == DecimationStep(r1 - r0, c1 - c0)
        rs == Strided(r0, r1, step)
        cs == Strided(c0, c1, step)
        kept == {e.cell[<<rs[q[1]], cs[q[2]]>>] : q \in (1..Len(rs)) \X (1..Len(cs))}
        min_elev == MinElev(gme, kept)
    IN [row |-> row, col |-> col, src_rows |-> rs, src_cols |-> cs,
        min_elev |-> min_elev, base_z |-> BaseZ,
        z |-> [q \in (1..Len(rs)) \X (1..Len(cs)) |->
                 ZMicro(e.cell[<<rs[q[1]], cs[q[2]]>>], min_elev, TileLv95Width(SliceBBox, n))]]

\* ------------------------------------------------- the terrain solid
\* lengths are integers in micrometres; a vertex is <<x, y, z>>; a face is
\* [part, v] with v its three vertices
ModelWidthUm == ModelWidthMm * 1000

GenLv95 == wgs84_to_lv95_bbox(SliceBBox)

\* height_mm = lv95_height * horizontal_scale
HeightUm == ((GenLv95.max_n - GenLv95.min_n) * ModelWidthUm) \div (GenLv95.max_e - GenLv95.min_e)

\* element k (0-based) of np.linspace(0, stop, n)
linspace(stop, n, k) == IF n <= 1 THEN 0 ELSE (k * stop) \div (n - 1)

\* xx, yy of generate_terrain_stl: y runs from height_mm at row 0 down to 0
GridX(g, j) == linspace(ModelWidthUm, g.cols, j)

GridY(g, i) == linspace(HeightUm, g.rows, g.rows - 1 - i)

\* the height grid of an elevation grid: [rows, cols, z]
HeightGrid(e, min_elev, lv95_width) ==
  [rows |-> e.rows, cols |-> e.cols,
   z |-> [p \in Cells(e.rows, e.cols) |-> ZMicro(e.cell[p], min_elev, lv95_width)]]

TopVertex(g, p) == <<GridX(g, p[2]), GridY(g, p[1]), g.z[p]>>

BaseVertex(g, p) == <<GridX(g, p[2]), GridY(g, p[1]), BaseZ>>

Face(part, a, b, c) == [part |-> part, v |-> <<a, b, c>>]

NoMask == [given |-> FALSE, inside |-> [p \in {} |-> TRUE]]

\* faulty variant: the last cell is left out
CellSeq_Short(rows, cols) ==
  [k \in 1..((rows - 1) * (cols - 1) - 1) |-> <<(k - 1) \div (cols - 1), (k - 1) % (cols - 1)>>]

\* the cells (r, c) with r < rows - 1 and c < cols - 1, row-major
CellSeq(rows, cols) ==
  [k \in 1..((rows - 1) * (cols - 1)) |-> <<(k - 1) \div (cols - 1), (k - 1) % (cols - 1)>>]

\* faulty variant: only the top-left corner is tested
quad_valid_TopLeft(inside, c) == inside[c]

quad_valid(inside, c) ==
  /\ inside[c] /\ inside[<<c[1], c[2] + 1>>]
  /\ inside[<<c[1] + 1, c[2]>>] /\ inside[<<c[1] + 1, c[2] + 1>>]

\* faulty variant: the flip is ignored
_wall_strip_Unflipped(part, g, P0, P1, flip) ==
  [k \in 1..Len(P0) |->
     Face(part, TopVertex(g, P0[k]), TopVertex(g, P1[k]), BaseVertex(g, P0[k]))]
  \o [k \in 1..Len(P0) |->
        Face(part, TopVertex(g, P1[k]), BaseVertex(g, P1[k]), BaseVertex(g, P0[k]))]

\* one strip of wall between the samples P0[k] and P1[k] and the base level
_wall_strip(part, g, P0, P1, flip) ==
  LET a(k) == IF flip
                THEN Face(part, TopVertex(g, P0[k]), BaseVertex(g, P0[k]), TopVertex(g, P1[k]))
                ELSE Face(part, TopVertex(g, P0[k]), TopVertex(g, P1[k]), BaseVertex(g, P0[k]))
      b(k) == IF flip
                THEN Face(part, TopVertex(g, P1[k]), BaseVertex(g, P0[k]), BaseVertex(g, P1[k]))
                ELSE Face(part, TopVertex(g, P1[k]), BaseVertex(g, P1[k]), BaseVertex(g, P0[k]))
  IN [k \in 1..Len(P0) |-> a(k)] \o [k \in 1..Len(P0) |-> b(k)]

\* top surface, and without a clip mask the bottom plate and the four walls
_build_terrain_faces(g, clip_mask) ==
  LET all == CellSeq(g.rows, g.cols)
      kept == IF clip_mask.given
                THEN SelectSeq(all, LAMBDA c : quad_valid(clip_mask.inside, c))
                ELSE all
      tl(c) == TopVertex(g, c)
      bl(c) == TopVertex(g, <<c[1] + 1, c[2]>>)
      tr(c) == TopVertex(g, <<c[1], c[2] + 1>>)
      br(c) == TopVertex(g, <<c[1] + 1, c[2] + 1>>)
      tri_a == [k \in 1..Len(kept) |-> Face("top", tl(kept[k]), bl(kept[k]), tr(kept[k]))]
      tri_b == [k \in 1..Len(kept) |-> Face("top", tr(kept[k]), bl(kept[k]), br(kept[k]))]
      w == GridX(g, g.cols - 1)
      h == GridY(g, 0)
      bottom == << Face("bottom", <<0, 0, BaseZ>>, <<0, h, BaseZ>>, <<w, 0, BaseZ>>),
                   Face("bottom", <<w, 0, BaseZ>>, <<0, h, BaseZ>>, <<w, h, BaseZ>>) >>
      alongRow(r, d) == [k \in 1..(g.cols - 1) |-> <<r, k - 1 + d>>]
      alongCol(c, d) == [k \in 1..(g.rows - 1) |-> <<k - 1 + d, c>>]
      wall_top == _wall_strip("wall_top", g, alongRow(0, 0), alongRow(0, 1), FALSE)
      wall_bottom == _wall_strip("wall_bottom", g, alongRow(g.rows - 1, 0),
                                 alongRow(g.rows - 1, 1), TRUE)
      wall_left == _wall_strip("wall_left", g, alongCol(0, 0), alongCol(0, 1), TRUE)
      wall_right == _wall_strip("wall_right", g, alongCol(g.cols - 1, 0),
                                alongCol(g.cols - 1, 1), FALSE)
  IN IF clip_mask.given
       THEN tri_a \o tri_b
       ELSE tri_a \o tri_b \o bottom \o wall_top \o wall_bottom \o wall_left \o wall_right

\* a face two of whose vertices coincide
Degenerate(f) == f.v[1] = f.v[2] \/ f.v[2] = f.v[3] \/ f.v[3] = f.v[1]

\* the clean-up of _fix_normals_global: coincident vertices merge (vertices are
\* positions here) and degenerate faces are dropped; orientation is not kept
_fix_normals_global(faces) == SelectSeq(faces, LAMBDA f : ~Degenerate(f))

FaceEdges(f) == {{f.v[1], f.v[2]}, {f.v[2], f.v[3]}, {f.v[3], f.v[1]}}

edge_use(faces, e) == Cardinality({k \in 1..Len(faces) : e \in FaceEdges(faces[k])})

\* boundary_edges of _mesh_integrity_metrics: the edges used by one face only
boundary_edges(faces) ==
  Cardinality({e \in UNION {FaceEdges(faces[k]) : k \in 1..Len(faces)} :
                 edge_use(faces, e) = 1})

\* ------------------------------------------------------ clip polygon
\* the sign of the turn a -> b -> c (points are <<x, y>> or <<x, y, z>>)
Orient(a, b, c) ==
  LET d == (b[1] - a[1]) * (c[2] - a[2]) - (b[2] - a[2]) * (c[1] - a[1])
  IN IF d > 0 THEN 1 ELSE IF d < 0 THEN 0 - 1 ELSE 0

\* edge k of the ring through pts: from pts[k] to the next point, cyclically
RingEdge(pts, k) == <<pts[k], pts[(k % Len(pts)) + 1]>>

\* Polygon(pts).is_valid and not is_empty: a ring with area none of whose edges
\* cross
PolygonValid(pts) ==
  LET
    SegmentsCross(a, b, c, d) ==
      /\ Orient(a, b, c) * Orient(a, b, d) < 0
      /\ Orient(c, d, a) * Orient(c, d, b) < 0

    \* twice the signed area of the ring, taken relative to its first point
    TwiceArea(pts0) ==
      LET dx(q) == q[1] - pts0[1][1]
          dy(q) == q[2] - pts0[1][2]
          term(k) == dx(RingEdge(pts0, k)[1]) * dy(RingEdge(pts0, k)[2])
                       - dx(RingEdge(pts0, k)[2]) * dy(RingEdge(pts0, k)[1])
          sum[k \in 0..Len(pts0)] == IF k = 0 THEN 0 ELSE sum[k - 1] + term(k)
      IN sum[Len(pts0)]
  IN
    /\ Len(pts) >= 3
    /\ TwiceArea(pts) # 0
    /\ \A i \in 1..Len(pts), j \in 1..Len(pts) :
         i < j => ~SegmentsCross(RingEdge(pts, i)[1], RingEdge(pts, i)[2],
                                 RingEdge(pts, j)[1], RingEdge(pts, j)[2])

\* contains_xy(poly, x, y) for a valid polygon: an odd number of crossings
contains_xy(pts, q) ==
  LET
    \* whether the ray from q to the east crosses the edge a -> b
    RayCrosses(q0, a, b) ==
      /\ (a[2] > q0[2]) # (b[2] > q0[2])
      /\ LET lhs == (q0[1] - a[1]) * (b[2] - a[2])
             rhs == (q0[2] - a[2]) * (b[1] - a[1])
         IN IF b[2] > a[2] THEN lhs < rhs ELSE lhs > rhs
  IN
    Cardinality({k \in 1..Len(pts) :
                   RayCrosses(q, RingEdge(pts, k)[1], RingEdge(pts, k)[2])}) % 2 = 1

\* the LV95 position of grid sample p: np.linspace(min_e, max_e, cols) and
\* np.linspace(max_n, min_n, rows)
SampleLv95(rows, cols, p, lv) ==
  <<lv.min_e + linspace(lv.max_e - lv.min_e, cols, p[2]),
    lv.max_n - linspace(lv.max_n - lv.min_n, rows, p[1])>>

\* the mask is all true for fewer than 3 points and for an invalid polygon
_compute_clip_mask(rows, cols, pts, lv) ==
  [given |-> TRUE,
   inside |-> [p \in Cells(rows, cols) |->
                 IF Len(pts) < 3 \/ ~PolygonValid(pts)
                   THEN TRUE
                   ELSE contains_xy(pts, SampleLv95(rows, cols, p, lv))]]

Clamp(v, lo, hi) == IF v < lo THEN lo ELSE IF v > hi THEN hi ELSE v

\* ------------------------------------------------------ road emboss
\* road_polygons_lv95 is a sequence of rings of LV95 points; the grids of this
\* model are far below target_cells, so that stride is 1 and the work grid is
\* the grid itself
SetMin(S) == CHOOSE m \in S : \A x \in S : m <= x

SetMax(S) == CHOOSE m \in S : \A x \in S : m >= x

\* whether the loop over the rings sets the mask bit of sample p for this ring
RingCovers(ring, rows, cols, p, lv) ==
  LET
    \* int(np.ceil(a / b)) for b > 0
    CeilQuot(a, b) == 0 - ((0 - a) \div b)
    es == {ring[k][1] : k \in 1..Len(ring)}
    ns == {ring[k][2] : k \in 1..Len(ring)}
    w == lv.max_e - lv.min_e
    h == lv.max_n - lv.min_n
    \* the window r0..r1, c0..c1 of work-grid samples around the bounds of the ring
    win ==
      [c0 |-> Clamp(((SetMin(es) - lv.min_e) * (cols - 1)) \div w, 0, cols - 1),
       c1 |-> Clamp(CeilQuot((SetMax(es) - lv.min_e) * (cols - 1), w), 0, cols - 1),
       r0 |-> Clamp(((lv.max_n - SetMax(ns)) * (rows - 1)) \div h, 0, rows - 1),
       r1 |-> Clamp(CeilQuot((lv.max_n - SetMin(ns)) * (rows - 1), h), 0, rows - 1)]
  IN
    /\ Len(ring) >= 3
    /\ PolygonValid(ring)
    /\ win.r0 <= p[1] /\ p[1] <= win.r1
    /\ win.c0 <= p[2] /\ p[2] <= win.c1
    /\ contains_xy(ring, <<lv.min_e + linspace(lv.max_e - lv.min_e, cols, p[2]),
                           lv.max_n - linspace(lv.max_n - lv.min_n, rows, p[1])>>)

\* faulty variant: the raise is added once per ring that covers the cell
_apply_road_emboss_PerRing(g, rings, lv) ==
  [z |-> [p \in Cells(g.rows, g.cols) |->
            g.z[p] + RoadRaiseUm
                       * Cardinality({k \in 1..Len(rings) :
                                        RingCovers(rings[k], g.rows, g.cols, p, lv)})],
   passed |-> g.z]

\* z of the returned array and, as passed, what the array of the caller holds
\* after the call: the raise is made on a copy
_apply_road_emboss(g, rings, lv) ==
  LET
    \* the union of the masks of the rings
    road_mask ==
      [p \in Cells(g.rows, g.cols) |->
         \E k \in 1..Len(rings) : RingCovers(rings[k], g.rows, g.cols, p, lv)]
  IN
    IF rings = <<>>
      THEN [z |-> g.z, passed |-> g.z]
      ELSE [z |-> [p \in Cells(g.rows, g.cols) |->
                     IF road_mask[p] THEN g.z[p] + RoadRaiseUm ELSE g.z[p]],
            passed |-> g.z]

\* a polygon point in model coordinates, and the grid sample whose height the
\* wall takes there
PolyX(pt, lv) == ((pt[1] - lv.min_e) * ModelWidthUm) \div (lv.max_e - lv.min_e)

\* (n - min_n) / lv95_height * height_mm, with height_mm = lv95_height *
\* model_width_mm / lv95_width
PolyY(pt, lv) == ((pt[2] - lv.min_n) * ModelWidthUm) \div (lv.max_e - lv.min_e)

\* two triangles for each pair of consecutive polygon points
_build_polygon_walls(pts, lv, g) ==
  LET
    PolySample(g0, pt, lv0) ==
      <<Clamp(((lv0.max_n - pt[2]) * (g0.rows - 1)) \div (lv0.max_n - lv0.min_n), 0, g0.rows - 1),
        Clamp(((pt[1] - lv0.min_e) * (g0.cols - 1)) \div (lv0.max_e - lv0.min_e), 0, g0.cols - 1)>>
  IN
    IF Len(pts) < 3 THEN <<>>
    ELSE LET top(k) == <<PolyX(pts[k], lv), PolyY(pts[k], lv), g.z[PolySample(g, pts[k], lv)]>>
             base(k) == <<PolyX(pts[k], lv), PolyY(pts[k], lv), BaseZ>>
             pair(k) == << Face("poly_wall", top(k), top(k + 1), base(k)),
                           Face("poly_wall", top(k + 1), base(k + 1), base(k)) >>
             walls[k \in 0..(Len(pts) - 1)] == IF k = 0 THEN <<>> ELSE walls[k - 1] \o pair(k)
         IN walls[Len(pts) - 1]

\* the face lists _build_polygon_base may return: for a valid polygon the
\* simplices with their centroid inside; for an invalid one shapely's answer is
\* unspecified, any subset of the simplices
_build_polygon_base(ring, lv) ==
  LET
    Triples(n) == {t \in (1..n) \X (1..n) \X (1..n) : t[1] < t[2] /\ t[2] < t[3]}

    \* two triangles of 4 points that lie on the two sides of the edge they share
    OppositeSides(pts, t1, t2) ==
      LET v1 == {t1[1], t1[2], t1[3]}
          v2 == {t2[1], t2[2], t2[3]}
          shared == v1 \cap v2
          a == CHOOSE i \in shared : \A k \in shared : i <= k
          b == CHOOSE i \in shared : \A k \in shared : i >= k
          c1 == CHOOSE i \in v1 : i \notin shared
          c2 == CHOOSE i \in v2 : i \notin shared
      IN t1 # t2 /\ Orient(pts[a], pts[b], pts[c1]) * Orient(pts[a], pts[b], pts[c2]) < 0

    Times3(pts) == [k \in 1..Len(pts) |-> <<3 * pts[k][1], 3 * pts[k][2]>>]
  IN
    LET
      \* the triangulations scipy's Delaunay may return for 3 points, or for 4 points
      \* on a circle (either diagonal): sets of index triples
      Triangulations(pts) ==
        IF Len(pts) = 3 THEN {{<<1, 2, 3>>}}
        ELSE {T \in SUBSET Triples(4) :
                \E t1 \in T, t2 \in T : T = {t1, t2} /\ OppositeSides(pts, t1, t2)}

      \* the simplices of a triangulation whose centroid the polygon contains
      CentroidInside(pts, t) ==
        contains_xy(Times3(pts), <<pts[t[1]][1] + pts[t[2]][1] + pts[t[3]][1],
                                   pts[t[1]][2] + pts[t[2]][2] + pts[t[3]][2]>>)

      SetToSeq(S) ==
        LET f[T \in SUBSET S] ==
              IF T = {} THEN <<>> ELSE LET x == CHOOSE x \in T : TRUE IN <<x>> \o f[T \ {x}]
        IN f[S]

      \* pts2d without its last point when the ring repeats its first point there
      OpenRing(pts) ==
        IF Len(pts) > 3 /\ pts[1] = pts[Len(pts)] THEN SubSeq(pts, 1, Len(pts) - 1) ELSE pts
    IN
      IF Len(ring) < 3 THEN {<<>>}
      ELSE LET pts == OpenRing(ring)
               at(k) == <<PolyX(pts[k], lv), PolyY(pts[k], lv), BaseZ>>
               face(t) == Face("poly_base", at(t[1]), at(t[3]), at(t[2]))
               keep(T) == IF PolygonValid(pts)
                            THEN {{t \in T : CentroidInside(pts, t)}}
                            ELSE SUBSET T
           IN UNION {{[k \in 1..Len(SetToSeq(K)) |-> face(SetToSeq(K)[k])] : K \in keep(T)}
                      : T \in Triangulations(pts)}

\* -------------------------------------------------------- buildings
\* a building mesh is [verts, faces]: LV95 vertices <<e, n, h>> and faces as
\* triples of vertex indices
NoBuildings == [verts |-> <<>>, faces |-> <<>>]

\* a building vertex in model coordinates
BuildingVertex(v, lv, min_elev) ==
  <<PolyX(v, lv), PolyY(v, lv), ZMicro(v[3], min_elev, lv.max_e - lv.min_e)>>

\* in_bounds & in_poly of a vertex: the polygon counts only when it is valid
vertex_keep(v, lv, pts) ==
  LET
    in_bounds(v0, lv0) ==
      /\ PolyX(v0, lv0) >= 0 - BuildingMarginUm /\ PolyX(v0, lv0) <= ModelWidthUm + BuildingMarginUm
      /\ PolyY(v0, lv0) >= 0 - BuildingMarginUm /\ PolyY(v0, lv0) <= HeightUm + BuildingMarginUm
  IN
    in_bounds(v, lv) /\ (PolygonValid(pts) => contains_xy(pts, v))

\* faulty variant: one vertex in bounds is enough
face_keep_AnyVertex(b, f, lv, pts) ==
  \/ vertex_keep(b.verts[f[1]], lv, pts)
  \/ vertex_keep(b.verts[f[2]], lv, pts)
  \/ vertex_keep(b.verts[f[3]], lv, pts)

face_keep(b, f, lv, pts) ==
  /\ vertex_keep(b.verts[f[1]], lv, pts)
  /\ vertex_keep(b.verts[f[2]], lv, pts)
  /\ vertex_keep(b.verts[f[3]], lv, pts)

\* the building faces handed to _repair_building_mesh, which drops degenerate
\* faces
BuildingFaces(b, lv, pts, min_elev) ==
  LET kept == SelectSeq(b.faces, LAMBDA f : face_keep(b, f, lv, pts))
      mm == [k \in 1..Len(kept) |->
               Face("building", BuildingVertex(b.verts[kept[k][1]], lv, min_elev),
                                BuildingVertex(b.verts[kept[k][2]], lv, min_elev),
                                BuildingVertex(b.verts[kept[k][3]], lv, min_elev))]
  IN SelectSeq(mm, LAMBDA f : ~Degenerate(f))

VARIABLES
  jobs,        \* the registry: job_id -> JobResponse
  task,        \* job_id -> the background task process_job(job_id, request)
  outdir,      \* the files present in OUTPUT_DIR (served at /output)
  http,        \* the last POST /generate exchange
  scheduled,   \* job ids handed to background_tasks.add_task
  phaseLog,    \* job_id -> phases started and finished, in order
  stragglers,  \* job_id -> terrain downloads still running after gather raised
  sinkFaulty,  \* whether the progress sink handed to the fetchers may raise
  full_elevation,   \* the elevation grid of the whole zone (metres)
  split_n,          \* grid_split of the job that slices full_elevation
  global_min_elev,  \* nanmin of full_elevation
  tile_meshes,      \* what generate_terrain_stl made of each tile, in loop order
  grid_pc,          \* where the slicing loop of _generate_grid is
  gen_in,           \* the arguments of one call of generate_terrain_stl
  gen_out,          \* what that call has computed so far
  gen_pc,           \* where that call is
  shape_in,         \* the shape of a full grid and the grid_split of its job
  shape_out,        \* per tile, the shape sliced and the shape after decimation
  shape_pc,         \* where the loop over the tile shapes is
  permits,          \* the fetch tasks of one job phase and their semaphore
  cache,            \* one entry of each download cache: terrain, dxf, roads
  fetchers,         \* the tasks and threads of concurrent jobs after one cache key
  dxf,              \* DXF tiles being parsed by get_building_meshes
  bld               \* the building mesh: parsed, concatenated, compacted

jobVars == <<jobs, task, outdir, http, scheduled, phaseLog, stragglers, sinkFaulty>>

sliceVars == <<full_elevation, split_n, global_min_elev, tile_meshes, grid_pc>>

meshVars == <<gen_in, gen_out, gen_pc>>

shapeVars == <<shape_in, shape_out, shape_pc>>

otherVars == <<permits, cache, fetchers, dxf, bld>>

\* the variables the job front-end never touches
offlineVars == <<sliceVars, meshVars, shapeVars, otherVars>>

vars == <<jobVars, offlineVars>>

NoGenOut ==
  [grid |-> [rows |-> 0, cols |-> 0, z |-> [p \in {} |-> 0]], clip_lv95 |-> NoClip,
   clip_mask |-> NoMask, terrain_faces |-> <<>>, building_faces |-> <<>>,
   poly_faces |-> <<>>, all_face_data |-> <<>>, boundary_edges |-> 0,
   z_passed |-> [p \in {} |-> 0]]

\* no generator call and no shape loop is being followed
MeshOff ==
  LET
    NoGenIn ==
      [elevation |-> NoElevation, clip_polygon |-> NoClip, buildings |-> NoBuildings,
       roads |-> <<>>]
  IN
    gen_in = NoGenIn /\ gen_out = NoGenOut /\ gen_pc = "off"

ShapeOff == shape_in = [rows |-> 0, cols |-> 0, n |-> 1] /\ shape_out = <<>> /\ shape_pc = "off"

PermitsOff ==
  LET
    \* no semaphore, no cache and no DXF parse is being followed
    NoPermits ==
      [kind |-> "off", total |-> 0, waiting |-> 0, inflight |-> 0, done |-> 0, failed |-> 0,
       value |-> 0]
  IN
    permits = NoPermits

CacheOff == cache = [k \in {} |-> 0] /\ fetchers = <<>>

DxfOff == dxf = [tiles |-> <<>>, t |-> 0, pc |-> "off"] /\ bld = [k \in {} |-> 0]

OthersOff == PermitsOff /\ CacheOff /\ DxfOff

NoBBox == BBox(0, 0, 0, 0)

NoTask ==
  [pc |-> "none",
   request |-> [bbox |-> NoBBox, include_buildings |-> FALSE, include_roads |-> FALSE,
                grid_split |-> 1, clip_polygon |-> NoClip],
   block |-> 1, total |-> 0, completed |-> 0, tile_idx |-> 0, bmesh |-> "none",
   sub |-> <<>>, stl_paths |-> <<>>, zip_entries |-> <<>>, clip_lv95 |-> NoClip, boundary_edges |-> 0,
   exhausted |-> FALSE]

\* faulty variant: the download URL is never stored
JobResponse_NoUrl(status, progress, message, url) ==
  [status |-> status, progress |-> progress, message |-> message, download_url |-> ""]

JobResponse(status, progress, message, url) ==
  [status |-> status, progress |-> progress, message |-> message, download_url |-> url]

Registered == DOMAIN jobs

IsGrid(j) == task[j].request.grid_split > 1

SinkOutcomes == IF sinkFaulty THEN {"ok", "raise"} ELSE {"ok"}

Init ==
  /\ jobs = [j \in {} |-> 0]
  /\ task = [j \in JobIds |-> NoTask]
  /\ outdir = {}
  /\ http = [code |-> 0, bbox |-> NoBBox, job_id |-> ""]
  /\ scheduled = {}
  /\ phaseLog = [j \in JobIds |-> <<>>]
  /\ stragglers = [j \in JobIds |-> 0]
  /\ sinkFaulty = FALSE
  /\ full_elevation = NoElevation
  /\ split_n = 1
  /\ global_min_elev = 0
  /\ tile_meshes = <<>>
  /\ grid_pc = "off"
  /\ MeshOff
  /\ ShapeOff
  /\ OthersOff

\* --------------------------------------------------------- POST /generate
generate_stl ==
  LET
    \* bounding boxes in 1/100 degree: one inside Switzerland of about 84 km2, one
    \* beyond each side of lon [5.9, 10.5] / lat [45.8, 47.9], inverted and empty
    \* ones, and one inside Switzerland of about 169 km2
    BBoxSamples ==
      { BBox(590, 4580, 600, 4590),
        BBox(589, 4580, 599, 4590),
        BBox(1041, 4580, 1051, 4590),
        BBox(590, 4579, 600, 4589),
        BBox(590, 4781, 600, 4791),
        BBox(600, 4580, 590, 4590),
        BBox(590, 4590, 600, 4580),
        BBox(590, 4580, 590, 4590),
        BBox(590, 4580, 610, 4590) }
  IN
    \E b \in BBoxSamples :
      IF RequestRejected(b)
        THEN /\ http' = [code |-> 400, bbox |-> b, job_id |-> ""]
             /\ UNCHANGED <<jobs, task, outdir, scheduled, phaseLog, stragglers, sinkFaulty, offlineVars>>
        ELSE \E id \in JobIds \ Registered, n \in 1..MaxSplit, ib \in BOOLEAN,
                ir \in BOOLEAN, clip \in ClipSamples :
               /\ jobs' = (id :> JobResponse("pending", 0, "created", "")) @@ jobs
               /\ task' = [task EXCEPT ![id] =
                             [NoTask EXCEPT !.pc = "pending",
                                            !.request = [bbox |-> b, include_buildings |-> ib,
                                                         include_roads |-> ir, grid_split |-> n,
                                                         clip_polygon |-> clip]]]
               /\ scheduled' = scheduled \cup {id}
               /\ http' = [code |-> 200, bbox |-> b, job_id |-> id]
               /\ UNCHANGED <<outdir, phaseLog, stragglers, sinkFaulty, offlineVars>>

\* ------------------------------------------------------------- process_job
\* the except branch of process_job: status failed, the message of the
\* exception, progress 0.0; `left` terrain downloads keep running
Raise(j, kind, left) ==
  /\ jobs' = [jobs EXCEPT ![j].status = "failed", ![j].message = kind,
                          ![j].progress = FailedProgress]
  /\ task' = [task EXCEPT ![j].pc = "failed"]
  /\ stragglers' = [stragglers EXCEPT ![j] = left]
  /\ UNCHANGED <<outdir, http, scheduled, phaseLog, sinkFaulty, offlineVars>>

\* a progress write of the owning task: the job record and the task move on
Write(j, progress, t) ==
  /\ jobs' = [jobs EXCEPT ![j].progress = progress, ![j].message = "progress"]
  /\ task' = [task EXCEPT ![j] = t]

\* a call of on_progress (when one was given): the sink raises, or the write
\* is done and the task moves on to t; `ph` names the phase this step ends
Callback(j, place, progress, t, ph) ==
  LET
    \* whether the fetchers and the generator were given an on_progress callback
    HasSink(j0, place0) ==
      IF IsGrid(j0) THEN place0 = "terrain" ELSE TRUE

    \* the end of a phase of _generate_single enters the phase log
    LogEnd(j0, ph0) ==
      phaseLog' = IF ph0 = "" \/ IsGrid(j0)
                    THEN phaseLog
                    ELSE [phaseLog EXCEPT ![j0] = Append(@, <<"end", ph0>>)]
  IN
    IF HasSink(j, place)
      THEN \E o \in SinkOutcomes :
             IF o = "raise"
               THEN Raise(j, "sink", 0)
               ELSE /\ Write(j, progress, t)
                    /\ LogEnd(j, ph)
                    /\ UNCHANGED <<outdir, http, scheduled, stragglers, sinkFaulty, offlineVars>>
      ELSE /\ task' = [task EXCEPT ![j] = t]
           /\ LogEnd(j, ph)
           /\ UNCHANGED <<jobs, outdir, http, scheduled, stragglers, sinkFaulty, offlineVars>>

\* process_job up to the first await of _generate_single / _generate_grid
StartJob(j) ==
  /\ j \in scheduled
  /\ task[j].pc = "pending"
  /\ jobs' = [jobs EXCEPT ![j].status = "downloading_terrain",
                          ![j].progress = 2 * PScale, ![j].message = "progress"]
  /\ task' = [task EXCEPT ![j].pc = "terrain_stac", ![j].block = 1]
  /\ phaseLog' = [phaseLog EXCEPT ![j] = Append(@, <<"start", "terrain">>)]
  /\ UNCHANGED <<outdir, http, scheduled, stragglers, sinkFaulty, offlineVars>>

\* ------------------------------------------------------- services/terrain.py
terrain_progress(j, pct) ==
  LET
    \* terrain_progress in _generate_single: 5.0 + pct * 0.35
    terrain_progress_single(pct0) == (500 + pct0 * 35) * (PScale \div 100)

    \* terrain_progress in _generate_grid: 2.0 + pct * 0.18
    terrain_progress_grid(pct0) == (200 + pct0 * 18) * (PScale \div 100)
  IN
    IF IsGrid(j) THEN terrain_progress_grid(pct) ELSE terrain_progress_single(pct)

\* fetch_terrain_items (both queries of get_terrain_grid): an HTTP error, no
\* item at either resolution, or the tiles to download
fetch_terrain_items(j) ==
  /\ task[j].pc = "terrain_stac"
  /\ \/ Raise(j, "terrain_http", 0)
     \/ Raise(j, "no_terrain", 0)
     \/ \E k \in 1..MaxTerrainTiles :
          /\ task' = [task EXCEPT ![j].pc = "terrain_dl", ![j].total = k, ![j].completed = 0]
          /\ UNCHANGED <<jobs, outdir, http, scheduled, phaseLog, stragglers, sinkFaulty, offlineVars>>

\* one _dl task of download_all_tiles: download_tile raises (no retry), or
\* the tile is there and on_progress(completed, total) is called
download_tile(j) ==
  /\ task[j].pc = "terrain_dl"
  /\ task[j].completed < task[j].total
  /\ LET left == task[j].total - task[j].completed - 1
         done == task[j].completed + 1
     IN  \/ Raise(j, "terrain_http", left)
         \/ \E o \in SinkOutcomes :
              IF o = "raise"
                THEN Raise(j, "sink", left)
                ELSE /\ Write(j, terrain_progress(j, dl_progress(done, task[j].total)),
                              [task[j] EXCEPT !.completed = done])
                     /\ UNCHANGED <<outdir, http, scheduled, phaseLog, stragglers, sinkFaulty, offlineVars>>

\* a _dl task that outlives the failure of its job: asyncio.gather has raised,
\* the other downloads run on and still call terrain_progress
straggler(j) ==
  /\ task[j].pc = "failed"
  /\ stragglers[j] > 0
  /\ stragglers' = [stragglers EXCEPT ![j] = @ - 1]
  /\ \E o \in SinkOutcomes \cup {"http_error"} :
       IF o = "ok"
         THEN Write(j, terrain_progress(j, dl_progress(task[j].completed + 1, task[j].total)),
                    [task[j] EXCEPT !.completed = @ + 1])
         ELSE UNCHANGED <<jobs, task>>
  /\ UNCHANGED <<outdir, http, scheduled, phaseLog, sinkFaulty, offlineVars>>

\* the rest of get_terrain_grid (merge, clip, NaN fill) and the caller's write
\* after it: 40.0 in _generate_single, 20.0 in _generate_grid
get_terrain_grid(j) ==
  /\ task[j].pc = "terrain_dl"
  /\ task[j].completed = task[j].total
  /\ \/ Raise(j, "nodata", 0)
     \/ /\ IF IsGrid(j)
             THEN Write(j, 20 * PScale,
                        [task[j] EXCEPT !.pc = "tile_begin", !.tile_idx = 0, !.stl_paths = <<>>,
                                        !.total = 0, !.completed = 0])
             ELSE Write(j, 40 * PScale, [task[j] EXCEPT !.pc = "enter", !.block = 2,
                                                    !.total = 0, !.completed = 0])
        /\ phaseLog' = [phaseLog EXCEPT ![j] = Append(@, <<"end", "terrain">>)]
        /\ UNCHANGED <<outdir, http, scheduled, stragglers, sinkFaulty, offlineVars>>

\* ------------------------------------------------------- _generate_single
NewSubTiles(k) == [s \in 1..k |-> [st |-> "fetching", attempt |-> 0, page |-> 1]]

\* the head of a block of _generate_single: a skipped block falls through,
\* a fetch block sets the status and awaits its fetcher, the last block sets
\* GENERATING_STL, converts the clip polygon and enters generate_terrain_stl
\* up to its first on_progress(60)
EnterBlock(j) ==
  LET
    Requested(req, ph) ==
      CASE ph = "buildings" -> req.include_buildings
        [] ph = "roads" -> req.include_roads
        [] OTHER -> TRUE
  IN
    /\ task[j].pc = "enter"
    /\ LET ph == SinglePhaseOrder[task[j].block]
           req == task[j].request
       IN  IF ~Requested(req, ph)
             THEN /\ task' = [task EXCEPT ![j].pc = "leave"]
                  /\ UNCHANGED <<jobs, outdir, http, scheduled, phaseLog, stragglers, sinkFaulty, offlineVars>>
             ELSE IF ph = "stl"
               THEN /\ phaseLog' = [phaseLog EXCEPT ![j] = Append(@, <<"start", ph>>)]
                    /\ \E o \in SinkOutcomes :
                         IF o = "raise"
                           THEN /\ jobs' = [jobs EXCEPT ![j].status = "failed", ![j].message = "sink",
                                                   ![j].progress = FailedProgress]
                                /\ task' = [task EXCEPT ![j].pc = "failed",
                                              ![j].clip_lv95 = _convert_clip_polygon(req.clip_polygon)]
                           ELSE /\ jobs' = [jobs EXCEPT ![j].status = "generating_stl",
                                                   ![j].progress = sp(60), ![j].message = "progress"]
                                /\ task' = [task EXCEPT ![j].pc = "gen_terrain",
                                              ![j].clip_lv95 = _convert_clip_polygon(req.clip_polygon)]
                    /\ UNCHANGED <<outdir, http, scheduled, stragglers, sinkFaulty, offlineVars>>
               ELSE /\ phaseLog' = [phaseLog EXCEPT ![j] = Append(@, <<"start", ph>>)]
                    /\ jobs' = [jobs EXCEPT ![j].status = "downloading_" \o ph,
                                            ![j].message = "progress"]
                    /\ IF ph = "buildings"
                         THEN task' = [task EXCEPT ![j].pc = "bld_stac"]
                         ELSE \E k \in 1..MaxSubTiles :
                                task' = [task EXCEPT ![j].pc = "roads_fetch", ![j].total = k,
                                                     ![j].completed = 0, ![j].sub = NewSubTiles(k)]
                    /\ UNCHANGED <<outdir, http, scheduled, stragglers, sinkFaulty, offlineVars>>

\* the write after a block of _generate_single (job.progress = 55.0 / 60.0)
LeaveBlock(j) ==
  LET
    \* job.progress written after the buildings block and after the roads block
    BlockEndProgress(ph) == IF ph = "buildings" THEN 55 * PScale ELSE 60 * PScale
  IN
    /\ task[j].pc = "leave"
    /\ Write(j, BlockEndProgress(SinglePhaseOrder[task[j].block]),
             [task[j] EXCEPT !.pc = "enter", !.block = @ + 1])
    /\ UNCHANGED <<outdir, http, scheduled, phaseLog, stragglers, sinkFaulty, offlineVars>>

\* where a fetcher returns to: the end of the block in _generate_single, the
\* next step of the tile loop in _generate_grid
AfterFetch(j, ph) ==
  IF IsGrid(j) THEN (IF ph = "buildings" THEN "tile_roads" ELSE "tile_gen") ELSE "leave"

\* -------------------------------------------------- services/buildings_dxf.py
\* _stac_query in a thread: an HTTP error propagates; no item ends the fetch
\* with on_progress(100) and an empty mesh; else the DXF tiles to process
_stac_query(j) ==
  /\ task[j].pc = "bld_stac"
  /\ \/ Raise(j, "buildings_http", 0)
     \/ Callback(j, "buildings", bp(100),
                 [task[j] EXCEPT !.pc = AfterFetch(j, "buildings"), !.bmesh = "empty"],
                 "buildings")
     \/ \E k \in 1..MaxDxfTiles :
          /\ task' = [task EXCEPT ![j].pc = "bld_tiles", ![j].total = k, ![j].completed = 0,
                                  ![j].bmesh = "empty"]
          /\ UNCHANGED <<jobs, outdir, http, scheduled, phaseLog, stragglers, sinkFaulty, offlineVars>>

\* one iteration of the loop of get_building_meshes: _process_tile_sync gives
\* geometry, or nothing inside the bbox, or raises (download or parse), which
\* is logged and dropped; then on_progress
_process_tile_sync(j) ==
  LET
    \* int((i + 1) / len(items) * 100)
    bld_pct(done, total) == (done * 100) \div total
  IN
    /\ task[j].pc = "bld_tiles"
    /\ task[j].completed < task[j].total
    /\ \E o \in {"geometry", "nothing", "error"} :
         LET done == task[j].completed + 1
             last == done = task[j].total
             t == [task[j] EXCEPT
                     !.completed = IF last THEN 0 ELSE done,
                     !.total = IF last THEN 0 ELSE @,
                     !.bmesh = IF o = "geometry" THEN "some" ELSE @,
                     !.exhausted = @ \/ o = "error",
                     !.pc = IF last THEN AfterFetch(j, "buildings") ELSE @]
         IN  Callback(j, "buildings", bp(bld_pct(done, task[j].total)), t,
                      IF last THEN "buildings" ELSE "")

\* ---------------------------------------------------------- services/roads.py
\* a sub-tile is finished (its pages are in, or a page was given up as empty):
\* _save_tile_cache, then completed += 1 and the progress report of _fetch_one
FinishSubTile(j, s, gaveUp) ==
  LET
    \* int((completed / total_tiles) * 50.0)
    road_pct(completed, total) == (completed * 50) \div total

    \* whether _fetch_one reports progress after `completed` sub-tiles
    RoadReports(completed, total) == completed % 5 = 0 \/ completed = total
  IN
    LET done == task[j].completed + 1
        t == [task[j] EXCEPT !.completed = done,
                             !.sub[s] = [st |-> "done", attempt |-> 0, page |-> 1],
                             !.exhausted = @ \/ gaveUp]
    IN  IF RoadReports(done, task[j].total)
          THEN Callback(j, "roads", rp(road_pct(done, task[j].total)), t, "")
          ELSE /\ task' = [task EXCEPT ![j] = t]
               /\ UNCHANGED <<jobs, outdir, http, scheduled, phaseLog, stragglers, sinkFaulty, offlineVars>>

\* one request of _fetch_subtile for sub-tile s: a caught HTTP or transport
\* error (retried until MAX_RETRIES attempts were made, then the page counts
\* as empty), another exception (not caught), or a page of results
_fetch_subtile(j, s) ==
  LET
    \* the number of results of a page: fewer than PAGE_LIMIT, or a full page
    PageSizes == {0, 1, PAGE_LIMIT}
  IN
    /\ task[j].pc = "roads_fetch"
    /\ s \in DOMAIN task[j].sub
    /\ task[j].sub[s].st = "fetching"
    /\ \/ IF task[j].sub[s].attempt < MAX_RETRIES - 1
            THEN /\ task' = [task EXCEPT ![j].sub[s].attempt = @ + 1]
                 /\ UNCHANGED <<jobs, outdir, http, scheduled, phaseLog, stragglers, sinkFaulty, offlineVars>>
            ELSE FinishSubTile(j, s, TRUE)
       \/ Raise(j, "roads_error", 0)
       \/ \E results \in PageSizes :
            IF results < PAGE_LIMIT
              THEN FinishSubTile(j, s, FALSE)
              ELSE /\ task[j].sub[s].page < MaxPages
                   /\ task' = [task EXCEPT ![j].sub[s].page = @ + 1, ![j].sub[s].attempt = 0]
                   /\ UNCHANGED <<jobs, outdir, http, scheduled, phaseLog, stragglers, sinkFaulty, offlineVars>>

\* the rest of get_road_polygons after asyncio.gather: de-duplication,
\* buffering, the last on_progress(100)
get_road_polygons(j) ==
  /\ task[j].pc = "roads_fetch"
  /\ task[j].completed = task[j].total
  /\ Callback(j, "roads", rp(100), [task[j] EXCEPT !.pc = AfterFetch(j, "roads"), !.total = 0, !.completed = 0,
                              !.sub = <<>>],
              "roads")

\* ------------------------------------------------------ _generate_grid
\* faulty variant: the loop stops after one row of tiles
MoreTiles_Short(n, idx) == idx + 1 < n

\* whether the loop over the n * n tiles of _split_bbox_grid has a tile after idx
MoreTiles(n, idx) == idx + 1 < n * n

\* the tile (row, col) of index idx in the list of _split_bbox_grid
TileRow(n, idx) == idx \div n

\* faulty variant: the column is taken to be the row
TileCol_AsRow(n, idx) == idx \div n

TileCol(n, idx) == idx % n

\* the head of an iteration of the tile loop, up to the await of
\* get_building_meshes when buildings are requested
TileBegin(j) ==
  /\ task[j].pc = "tile_begin"
  /\ LET n == task[j].request.grid_split
         t == [task[j] EXCEPT !.bmesh = "none"]
     IN  IF task[j].request.include_buildings
           THEN Write(j, base_progress(n, task[j].tile_idx) + progress_per_tile(n) \div 5,
                      [t EXCEPT !.pc = "bld_stac"])
           ELSE /\ task' = [task EXCEPT ![j] = [t EXCEPT !.pc = "tile_roads"]]
                /\ UNCHANGED jobs
  /\ UNCHANGED <<outdir, http, scheduled, phaseLog, stragglers, sinkFaulty, offlineVars>>

\* the tile loop up to the await of get_road_polygons when roads are requested
TileRoads(j) ==
  /\ task[j].pc = "tile_roads"
  /\ LET n == task[j].request.grid_split
     IN  IF task[j].request.include_roads
           THEN \E k \in 1..MaxSubTiles :
                  Write(j, base_progress(n, task[j].tile_idx) + (2 * progress_per_tile(n)) \div 5,
                        [task[j] EXCEPT !.pc = "roads_fetch", !.total = k, !.completed = 0,
                                        !.sub = NewSubTiles(k)])
           ELSE /\ task' = [task EXCEPT ![j].pc = "tile_gen"]
                /\ UNCHANGED jobs
  /\ UNCHANGED <<outdir, http, scheduled, phaseLog, stragglers, sinkFaulty, offlineVars>>

\* the write before the generator call of a tile, the conversion of the clip
\* polygon and the entry of generate_terrain_stl (no on_progress is passed)
TileGen(j) ==
  /\ task[j].pc = "tile_gen"
  /\ LET n == task[j].request.grid_split
     IN  Write(j, base_progress(n, task[j].tile_idx) + progress_per_tile(n) \div 2,
               [task[j] EXCEPT !.pc = "gen_terrain",
                               !.clip_lv95 = _convert_clip_polygon(task[j].request.clip_polygon)])
  /\ UNCHANGED <<outdir, http, scheduled, phaseLog, stragglers, sinkFaulty, offlineVars>>

\* ------------------------------------------------ services/stl_generator.py
\* generate_terrain_stl from _build_terrain_faces to on_progress(75)
GenTerrain(j) ==
  /\ task[j].pc = "gen_terrain"
  /\ Callback(j, "stl", sp(75), [task[j] EXCEPT !.pc = "gen_buildings"], "")

\* the building branch of generate_terrain_stl, to on_progress(85)
GenBuildings(j) ==
  /\ task[j].pc = "gen_buildings"
  /\ IF BuildingClipRaises(task[j].bmesh, task[j].clip_lv95)
       THEN Raise(j, "polygon", 0)
       ELSE Callback(j, "stl", sp(85), [task[j] EXCEPT !.pc = "gen_check"], "")

\* polygon walls and base, the global repair, the integrity metrics and the
\* integrity policy, to on_progress(95)
GenCheck(j) ==
  LET
    \* boundary-edge counts the integrity metrics may report
    BoundaryEdgeSamples == {0, 100001, 400000, 400001}
  IN
    /\ task[j].pc = "gen_check"
    /\ \E be \in BoundaryEdgeSamples :
         IF IntegrityFails(be, task[j].clip_lv95)
           THEN /\ jobs' = [jobs EXCEPT ![j].status = "failed", ![j].message = "integrity",
                                   ![j].progress = FailedProgress]
                /\ task' = [task EXCEPT ![j].pc = "failed", ![j].boundary_edges = be]
                /\ UNCHANGED <<outdir, http, scheduled, phaseLog, stragglers, sinkFaulty, offlineVars>>
           ELSE Callback(j, "stl", sp(95),
                         [task[j] EXCEPT !.pc = "gen_save", !.boundary_edges = be], "")

\* result_mesh.save(OUTPUT_DIR/<job_id>.stl) and what the caller does with the
\* returned path: _generate_single completes the job; _generate_grid records
\* the tile, writes its progress and goes on to the next tile or to the ZIP
GenSave(j) ==
  /\ task[j].pc = "gen_save"
  /\ LET n == task[j].request.grid_split
         idx == task[j].tile_idx
     IN  IF IsGrid(j)
           THEN /\ outdir' = outdir \cup {TileFile(j, TileRow(n, idx), TileCol(n, idx))}
                /\ Write(j, base_progress(n, idx) + progress_per_tile(n),
                         [task[j] EXCEPT
                            !.stl_paths = Append(@, <<TileRow(n, idx), TileCol(n, idx)>>),
                            !.tile_idx = idx + 1, !.bmesh = "none", !.boundary_edges = 0,
                            !.pc = IF MoreTiles(n, idx) THEN "tile_begin" ELSE "zip"])
                /\ UNCHANGED phaseLog
           ELSE /\ outdir' = outdir \cup {StlFile(j)}
                /\ jobs' = [jobs EXCEPT ![j] = JobResponse("completed", 100 * PScale, "ok", "stl")]
                /\ task' = [task EXCEPT ![j].pc = "done", ![j].bmesh = "none",
                                        ![j].boundary_edges = 0]
                /\ phaseLog' = [phaseLog EXCEPT ![j] = Append(@, <<"end", "stl">>)]
  /\ UNCHANGED <<http, scheduled, stragglers, sinkFaulty, offlineVars>>

\* phase 3 of _generate_grid: the write of 92.0
ZipBegin(j) ==
  /\ task[j].pc = "zip"
  /\ Write(j, 92 * PScale, [task[j] EXCEPT !.pc = "zip_write"])
  /\ UNCHANGED <<outdir, http, scheduled, phaseLog, stragglers, sinkFaulty, offlineVars>>

\* the ZIP is written from stl_paths, the per-tile STL files are removed and
\* the job is completed; the disk is taken to work, so that every os.remove
\* succeeds
ZipWrite(j) ==
  LET
    \* the name of a tile inside the ZIP, tile_R<row>_C<col>.stl
    arcname(row, col) == <<"tile_R", row, "_C", col, ".stl">>
  IN
    /\ task[j].pc = "zip_write"
    /\ outdir' = (outdir \cup {ZipFile(j)})
                   \ {TileFile(j, task[j].stl_paths[i][1], task[j].stl_paths[i][2]) :
                        i \in 1..Len(task[j].stl_paths)}
    /\ jobs' = [jobs EXCEPT ![j] = JobResponse("completed", 100 * PScale, "ok", "zip")]
    /\ task' = [task EXCEPT ![j].pc = "done",
                            ![j].zip_entries =
                               [i \in 1..Len(task[j].stl_paths) |->
                                  arcname(task[j].stl_paths[i][1], task[j].stl_paths[i][2])]]
    /\ UNCHANGED <<http, scheduled, phaseLog, stragglers, sinkFaulty, offlineVars>>

InitSink ==
  /\ jobs = [j \in {} |-> 0]
  /\ task = [j \in JobIds |-> NoTask]
  /\ outdir = {}
  /\ http = [code |-> 0, bbox |-> NoBBox, job_id |-> ""]
  /\ scheduled = {}
  /\ phaseLog = [j \in JobIds |-> <<>>]
  /\ stragglers = [j \in JobIds |-> 0]
  /\ sinkFaulty = TRUE
  /\ full_elevation = NoElevation
  /\ split_n = 1
  /\ global_min_elev = 0
  /\ tile_meshes = <<>>
  /\ grid_pc = "off"
  /\ MeshOff
  /\ ShapeOff
  /\ OthersOff

Next ==
  \/ generate_stl
  \/ \E j \in JobIds :
       \/ StartJob(j)
       \/ fetch_terrain_items(j)
       \/ download_tile(j)
       \/ straggler(j)
       \/ get_terrain_grid(j)
       \/ EnterBlock(j)
       \/ LeaveBlock(j)
       \/ _stac_query(j)
       \/ _process_tile_sync(j)
       \/ \E s \in 1..MaxSubTiles : _fetch_subtile(j, s)
       \/ get_road_polygons(j)
       \/ TileBegin(j)
       \/ TileRoads(j)
       \/ TileGen(j)
       \/ GenTerrain(j)
       \/ GenBuildings(j)
       \/ GenCheck(j)
       \/ GenSave(j)
       \/ ZipBegin(j)
       \/ ZipWrite(j)

Spec == Init /\ [][Next]_vars

SpecSink == InitSink /\ [][Next]_vars

\* ------------------------------------------ the slicing of _generate_grid
InitTiles ==
  LET
    ElevationGrids ==
      UNION { UNION { { ElevationGrid(R, C, rv, cv) :
                          rv \in [0..(R - 1) -> {0, 1}], cv \in [0..(C - 1) -> {0, 1}] }
                      : C \in MinGridDim..MaxGridDim }
              : R \in MinGridDim..MaxGridDim }
  IN
    /\ jobs = [j \in {} |-> 0]
    /\ task = [j \in JobIds |-> NoTask]
    /\ outdir = {}
    /\ http = [code |-> 0, bbox |-> NoBBox, job_id |-> ""]
    /\ scheduled = {}
    /\ phaseLog = [j \in JobIds |-> <<>>]
    /\ stragglers = [j \in JobIds |-> 0]
    /\ sinkFaulty = FALSE
    /\ full_elevation \in ElevationGrids
    /\ split_n \in 2..MaxSplit
    /\ global_min_elev = 0
    /\ tile_meshes = <<>>
    /\ grid_pc = "phase1"
    /\ MeshOff
    /\ ShapeOff
    /\ OthersOff

\* phase 1: the global minimum of the full grid
GridPhase1 ==
  /\ grid_pc = "phase1"
  /\ global_min_elev' = nanmin(full_elevation)
  /\ grid_pc' = "tiles"
  /\ UNCHANGED <<jobVars, full_elevation, split_n, tile_meshes, meshVars, shapeVars, otherVars>>

\* phase 2, one iteration: slice the tile and generate it; a tile without rows
\* or columns makes the generator raise (z.max() of an empty array)
GridTile ==
  /\ grid_pc = "tiles"
  /\ LET idx == Len(tile_meshes)
         t == TileMesh(full_elevation, split_n, TileRow(split_n, idx), TileCol(split_n, idx),
                       GridMinElev(global_min_elev))
     IN IF Len(t.src_rows) = 0 \/ Len(t.src_cols) = 0
          THEN grid_pc' = "failed" /\ UNCHANGED tile_meshes
          ELSE /\ tile_meshes' = Append(tile_meshes, t)
               /\ grid_pc' = IF MoreTiles(split_n, idx) THEN "tiles" ELSE "zip"
  /\ UNCHANGED <<jobVars, full_elevation, split_n, global_min_elev, meshVars, shapeVars, otherVars>>

\* phase 3: the tiles are packaged
GridZip ==
  /\ grid_pc = "zip"
  /\ grid_pc' = "done"
  /\ UNCHANGED <<jobVars, full_elevation, split_n, global_min_elev, tile_meshes, meshVars, shapeVars, otherVars>>

NextTiles == GridPhase1 \/ GridTile \/ GridZip

SpecTiles == InitTiles /\ [][NextTiles]_vars

\* --------------------------------------- one call of generate_terrain_stl
\* a ring point de metres east and dn metres north of the south-west corner
RP(de, dn) == <<GenLv95.min_e + de, GenLv95.min_n + dn>>

InitMesh ==
  LET
    \* elevation grids with a step on odd rows and a step on odd columns
    MeshGrids ==
      { ElevationGrid(R, C, [i \in 0..(R - 1) |-> a * (i % 2)], [j \in 0..(C - 1) |-> b * (j % 2)]) :
          R \in 2..MaxMeshDim, C \in 2..MaxMeshDim, a \in {0, 1}, b \in {0, 1} }

    \* the clip polygons of the requests, one that covers the western part and a
    \* triangle given as a closed ring
    MeshClipSamples ==
      ClipSamples \cup {ClipOf(<< <<589, 4579>>, <<596, 4579>>, <<596, 4591>>, <<589, 4591>> >>),
                        ClipOf(<< <<592, 4582>>, <<598, 4582>>, <<595, 4588>>, <<592, 4582>> >>)}

    BuildingSamples ==
      LET
        BuildingVerts ==
          LET
            \* a building vertex de metres east and dn metres north of the south-west corner
            BV(de, dn, h) == <<GenLv95.min_e + de, GenLv95.min_n + dn, h>>
          IN
            << BV(3800, 5000, 520), BV(3900, 5000, 520), BV(7625, 5100, 510), BV(7626, 5100, 510),
               BV(3800, 0 - 26, 510), BV(500, 500, 530), BV(3800, 6000, 525) >>
      IN
        { NoBuildings,
          [verts |-> BuildingVerts,
           faces |-> << <<1, 2, 3>>, <<1, 2, 4>>, <<1, 5, 2>>, <<1, 2, 6>>, <<1, 2, 7>> >>],
          [verts |-> BuildingVerts, faces |-> << <<1, 2, 4>>, <<1, 5, 2>> >>] }

    \* road_polygons_lv95: two overlapping rectangles over the northern half, and
    \* rings that are skipped
    RoadSamples ==
      LET
        RoadWest == << RP(0 - 100, 5000), RP(4000, 5000), RP(4000, 11200), RP(0 - 100, 11200) >>

        RoadEast == << RP(2000, 5000), RP(7700, 5000), RP(7700, 11200), RP(2000, 11200) >>

        RoadBowTie == << RP(0 - 100, 0 - 100), RP(7700, 11200), RP(7700, 0 - 100), RP(0 - 100, 11200) >>

        RoadTwoPoints == << RP(0 - 100, 0 - 100), RP(7700, 11200) >>
      IN
        { <<RoadWest>>, <<RoadWest, RoadEast>>, <<RoadBowTie, RoadTwoPoints>>,
          <<RoadTwoPoints, RoadWest, RoadBowTie>> }
  IN
    /\ jobs = [j \in {} |-> 0]
    /\ task = [j \in JobIds |-> NoTask]
    /\ outdir = {}
    /\ http = [code |-> 0, bbox |-> NoBBox, job_id |-> ""]
    /\ scheduled = {}
    /\ phaseLog = [j \in JobIds |-> <<>>]
    /\ stragglers = [j \in JobIds |-> 0]
    /\ sinkFaulty = FALSE
    /\ full_elevation = NoElevation
    /\ split_n = 1
    /\ global_min_elev = 0
    /\ tile_meshes = <<>>
    /\ grid_pc = "off"
    /\ gen_in \in [elevation : MeshGrids, clip_polygon : MeshClipSamples,
                    buildings : BuildingSamples, roads : {<<>>}]
                     \cup [elevation : MeshGrids, clip_polygon : {NoClip},
                           buildings : {NoBuildings}, roads : RoadSamples]
    /\ gen_out = NoGenOut
    /\ gen_pc = "setup"
    /\ ShapeOff
    /\ OthersOff

\* elevation[::step, ::step]
Decimate(e) ==
  LET step == DecimationStep(e.rows, e.cols)
      rs == Strided(0, e.rows, step)
      cs == Strided(0, e.cols, step)
  IN [rows |-> Len(rs), cols |-> Len(cs),
      cell |-> [p \in Cells(Len(rs), Len(cs)) |-> e.cell[<<rs[p[1] + 1], cs[p[2] + 1]>>]]]

\* decimation, the height grid, the road emboss and the clip mask
MeshSetup ==
  /\ gen_pc = "setup"
  /\ LET e == Decimate(gen_in.elevation)
         g0 == HeightGrid(e, nanmin(e), GenLv95.max_e - GenLv95.min_e)
         embossed == _apply_road_emboss(g0, gen_in.roads, GenLv95)
         g == [g0 EXCEPT !.z = embossed.z]
         clip_lv95 == _convert_clip_polygon(gen_in.clip_polygon)
     IN gen_out' = [gen_out EXCEPT
                      !.grid = g,
                      !.z_passed = embossed.passed,
                      !.clip_lv95 = clip_lv95,
                      !.clip_mask = IF ClipMaskPresent(clip_lv95)
                                      THEN _compute_clip_mask(g.rows, g.cols, clip_lv95.pts, GenLv95)
                                      ELSE NoMask]
  /\ gen_pc' = "terrain"
  /\ UNCHANGED <<jobVars, sliceVars, gen_in, shapeVars, otherVars>>

MeshTerrain ==
  /\ gen_pc = "terrain"
  /\ gen_out' = [gen_out EXCEPT
                   !.terrain_faces = _build_terrain_faces(gen_out.grid, gen_out.clip_mask)]
  /\ gen_pc' = "buildings"
  /\ UNCHANGED <<jobVars, sliceVars, gen_in, shapeVars, otherVars>>

\* the building branch: Polygon(...) raises for a clip polygon of 1 or 2 points
MeshBuildings ==
  /\ gen_pc = "buildings"
  /\ IF Len(gen_in.buildings.verts) > 0 /\ Len(gen_in.buildings.faces) > 0
       THEN IF BuildingClipRaises("some", gen_out.clip_lv95)
              THEN gen_pc' = "raised" /\ UNCHANGED gen_out
              ELSE /\ gen_out' = [gen_out EXCEPT
                                    !.building_faces =
                                       BuildingFaces(gen_in.buildings, GenLv95,
                                                     gen_out.clip_lv95.pts,
                                                     nanmin(gen_in.elevation))]
                   /\ gen_pc' = "polygon"
       ELSE gen_pc' = "polygon" /\ UNCHANGED gen_out
  /\ UNCHANGED <<jobVars, sliceVars, gen_in, shapeVars, otherVars>>

\* polygon walls and base, built whenever there is a clip mask
MeshPolygon ==
  /\ gen_pc = "polygon"
  /\ IF gen_out.clip_mask.given
       THEN \E base \in _build_polygon_base(gen_out.clip_lv95.pts, GenLv95) :
              gen_out' = [gen_out EXCEPT
                            !.poly_faces =
                               _build_polygon_walls(gen_out.clip_lv95.pts, GenLv95, gen_out.grid)
                                 \o base]
       ELSE UNCHANGED gen_out
  /\ gen_pc' = "integrity"
  /\ UNCHANGED <<jobVars, sliceVars, gen_in, shapeVars, otherVars>>

\* concatenation, global clean-up, integrity metrics and policy
MeshIntegrity ==
  /\ gen_pc = "integrity"
  /\ LET all == _fix_normals_global(gen_out.terrain_faces \o gen_out.poly_faces
                                      \o gen_out.building_faces)
     IN /\ gen_out' = [gen_out EXCEPT !.all_face_data = all,
                                      !.boundary_edges = boundary_edges(all)]
        /\ gen_pc' = IF IntegrityFails(boundary_edges(all), gen_out.clip_lv95)
                       THEN "raised" ELSE "saved"
  /\ UNCHANGED <<jobVars, sliceVars, gen_in, shapeVars, otherVars>>

NextMesh == MeshSetup \/ MeshTerrain \/ MeshBuildings \/ MeshPolygon \/ MeshIntegrity

SpecMesh == InitMesh /\ [][NextMesh]_vars

\* ------------------------------- the shapes of the grids that are meshed
InitShape ==
  LET
    \* the shape of the full grid of a job and its grid_split; with grid_split 1
    \* (_generate_single) the whole grid is the one tile
    ShapeDims ==
      (2..(2 + MaxDimOffset))
        \cup UNION { ((m * MAX_GRID_DIM - MaxDimOffset)..(m * MAX_GRID_DIM + MaxDimOffset)) :
                       m \in {1, 2, GRID_SPLIT_MAX} }
  IN
    /\ jobs = [j \in {} |-> 0]
    /\ task = [j \in JobIds |-> NoTask]
    /\ outdir = {}
    /\ http = [code |-> 0, bbox |-> NoBBox, job_id |-> ""]
    /\ scheduled = {}
    /\ phaseLog = [j \in JobIds |-> <<>>]
    /\ stragglers = [j \in JobIds |-> 0]
    /\ sinkFaulty = FALSE
    /\ full_elevation = NoElevation
    /\ split_n = 1
    /\ global_min_elev = 0
    /\ tile_meshes = <<>>
    /\ grid_pc = "off"
    /\ MeshOff
    /\ shape_in \in [rows : ShapeDims, cols : ShapeDims, n : 1..GRID_SPLIT_MAX]
    /\ shape_out = <<>>
    /\ shape_pc = "slice"
    /\ OthersOff

\* tile_elev = full_elevation[r_start:r_end, c_start:c_end] of the next tile
ShapeSlice ==
  /\ shape_pc = "slice"
  /\ LET n == shape_in.n
         idx == Len(shape_out)
         row == TileRow(n, idx)
         col == TileCol(n, idx)
     IN shape_out' = Append(shape_out,
          [row |-> row, col |-> col,
           r_start |-> SliceStart(row, n, shape_in.rows),
           r_end |-> SliceEnd(row, n, shape_in.rows),
           c_start |-> SliceStart(col, n, shape_in.cols),
           c_end |-> SliceEnd(col, n, shape_in.cols),
           in_rows |-> SliceEnd(row, n, shape_in.rows) - SliceStart(row, n, shape_in.rows),
           in_cols |-> SliceEnd(col, n, shape_in.cols) - SliceStart(col, n, shape_in.cols),
           step |-> 0, rows |-> 0, cols |-> 0])
  /\ shape_pc' = "generate"
  /\ UNCHANGED <<jobVars, sliceVars, meshVars, shape_in, otherVars>>

\* the decimation of generate_terrain_stl on the sliced tile; a tile without
\* rows or columns makes the call raise (z.max() of an empty array)
ShapeGenerate ==
  /\ shape_pc = "generate"
  /\ LET idx == Len(shape_out)
         t == shape_out[idx]
         step == DecimationStep(t.in_rows, t.in_cols)
     IN IF t.in_rows = 0 \/ t.in_cols = 0
          THEN shape_pc' = "raised" /\ UNCHANGED shape_out
          ELSE /\ shape_out' = [shape_out EXCEPT ![idx] =
                                  [t EXCEPT !.step = step,
                                            !.rows = Len(Strided(0, t.in_rows, step)),
                                            !.cols = Len(Strided(0, t.in_cols, step))]]
               /\ shape_pc' = IF MoreTiles(shape_in.n, idx - 1) THEN "slice" ELSE "done"
  /\ UNCHANGED <<jobVars, sliceVars, meshVars, shape_in, otherVars>>

NextShape == ShapeSlice \/ ShapeGenerate

SpecShape == InitShape /\ [][NextShape]_vars

\* ------------------------------- the permits of the parallel fetches
\* no job, no slicing loop, no generator call and no shape loop is followed
FrontOff ==
  /\ jobs = [j \in {} |-> 0]
  /\ task = [j \in JobIds |-> NoTask]
  /\ outdir = {}
  /\ http = [code |-> 0, bbox |-> NoBBox, job_id |-> ""]
  /\ scheduled = {}
  /\ phaseLog = [j \in JobIds |-> <<>>]
  /\ stragglers = [j \in JobIds |-> 0]
  /\ sinkFaulty = FALSE
  /\ full_elevation = NoElevation
  /\ split_n = 1
  /\ global_min_elev = 0
  /\ tile_meshes = <<>>
  /\ grid_pc = "off"
  /\ MeshOff
  /\ ShapeOff

\* the tasks asyncio.gather starts in one phase (the _dl tasks of
\* download_all_tiles, the _fetch_one tasks of get_road_polygons) are counted
\* by position: before the semaphore, inside it, returned, raised
InitPermits ==
  LET
    \* the initial value of the semaphore of a phase: DOWNLOAD_SEMAPHORE of
    \* terrain.py, the semaphore get_road_polygons creates for its call
    Capacity(kind) == IF kind = "terrain" THEN DOWNLOAD_PERMITS ELSE ROAD_CONCURRENCY
  IN
    /\ FrontOff
    /\ CacheOff
    /\ DxfOff
    /\ \E kind \in {"terrain", "roads"}, n \in 1..MaxFetchTasks :
         permits = [kind |-> kind, total |-> n, waiting |-> n, inflight |-> 0, done |-> 0,
                    failed |-> 0, value |-> Capacity(kind)]

\* faulty variant: the semaphore never blocks
locked_Never(value) == FALSE

\* asyncio.Semaphore.locked(): no permit is left
locked(value) == value = 0

\* download_tile returns the cached path before it reaches the semaphore
TileCached ==
  /\ permits.kind = "terrain"
  /\ permits.waiting > 0
  /\ permits' = [permits EXCEPT !.waiting = @ - 1, !.done = @ + 1]
  /\ UNCHANGED <<jobVars, sliceVars, meshVars, shapeVars, cache, fetchers, dxf, bld>>

\* async with semaphore, entry: a waiting task takes a permit
PermitAcquire ==
  /\ permits.kind \in {"terrain", "roads"}
  /\ permits.waiting > 0
  /\ ~locked(permits.value)
  /\ permits' = [permits EXCEPT !.waiting = @ - 1, !.inflight = @ + 1, !.value = @ - 1]
  /\ UNCHANGED <<jobVars, sliceVars, meshVars, shapeVars, cache, fetchers, dxf, bld>>

\* async with semaphore, normal exit: the fetch returns and the permit is
\* given back
FetchReturn ==
  /\ permits.inflight > 0
  /\ permits' = [permits EXCEPT !.inflight = @ - 1, !.done = @ + 1, !.value = @ + 1]
  /\ UNCHANGED <<jobVars, sliceVars, meshVars, shapeVars, cache, fetchers, dxf, bld>>

\* async with semaphore, exit by an exception: raise_for_status or a transport
\* error in download_tile, an uncaught exception in _fetch_subtile; the permit
\* is given back and the other tasks of the gather run on
FetchRaise ==
  /\ permits.inflight > 0
  /\ permits' = [permits EXCEPT !.inflight = @ - 1, !.failed = @ + 1, !.value = @ + 1]
  /\ UNCHANGED <<jobVars, sliceVars, meshVars, shapeVars, cache, fetchers, dxf, bld>>

NextPermits == TileCached \/ PermitAcquire \/ FetchReturn \/ FetchRaise

SpecPermits == InitPermits /\ [][NextPermits]_vars

\* ------------------------------- one entry of the download cache
InitCache ==
  LET
    \* The tasks and threads of concurrent jobs that want the same cache file: a
    \* GeoTIFF tile (terrain), an extracted DXF (dxf) or the feature list of a
    \* road sub-tile (roads).  file is what the path holds: nothing, a file that
    \* is open for writing and not yet written to the end, or a closed file;
    \* complete says that the closed file holds everything the server has.
    NoFetcher == [pc |-> "check", attempt |-> 0, page |-> 1, all_ok |-> TRUE, used |-> "none",
                  used_complete |-> TRUE]
  IN
    /\ FrontOff
    /\ PermitsOff
    /\ DxfOff
    /\ \E kind \in {"terrain", "dxf", "roads"}, file \in {"absent", "whole"} :
         cache = [kind |-> kind, file |-> file, complete |-> TRUE]
    /\ fetchers = [i \in 1..MaxFetchers |-> NoFetcher]

At(i, kind, pc) == cache.kind = kind /\ fetchers[i].pc = pc

Goto(i, pc) == fetchers' = [fetchers EXCEPT ![i].pc = pc]

Frozen == UNCHANGED <<jobVars, sliceVars, meshVars, shapeVars, permits, dxf, bld>>

\* download_tile, a coroutine: os.path.exists before the semaphore
download_tile_check(i) ==
  /\ At(i, "terrain", "check")
  /\ Goto(i, IF cache.file # "absent" THEN "read" ELSE "sem")
  /\ UNCHANGED cache
  /\ Frozen

\* download_tile: the second os.path.exists, inside the semaphore
download_tile_recheck(i) ==
  /\ At(i, "terrain", "sem")
  /\ Goto(i, IF cache.file # "absent" THEN "read" ELSE "get")
  /\ UNCHANGED cache
  /\ Frozen

\* download_tile: await client.get returns; raise_for_status raises, or the
\* file is opened, written and closed with no await in between, so no other
\* coroutine of the event loop runs while it is open
download_tile_get(i) ==
  /\ At(i, "terrain", "get")
  /\ \/ /\ cache' = [cache EXCEPT !.file = "whole", !.complete = TRUE]
        /\ Goto(i, "read")
     \/ /\ UNCHANGED cache
        /\ Goto(i, "failed")
  /\ Frozen

\* get_terrain_grid: rasterio.open of the path download_tile returned, in
\* the event loop
rasterio_open(i) ==
  /\ At(i, "terrain", "read")
  /\ fetchers' = [fetchers EXCEPT ![i].pc = "done", ![i].used = cache.file,
                                  ![i].used_complete = cache.complete]
  /\ UNCHANGED cache
  /\ Frozen

\* _download_dxf, in a thread of asyncio.to_thread: os.path.exists
_download_dxf_check(i) ==
  /\ At(i, "dxf", "check")
  /\ Goto(i, IF cache.file # "absent" THEN "read" ELSE "get")
  /\ UNCHANGED cache
  /\ Frozen

\* _download_dxf: httpx.get returns; raise_for_status or the ZIP raises, or
\* the archive is in memory
_download_dxf_get(i) ==
  /\ At(i, "dxf", "get")
  /\ \E ok \in BOOLEAN : Goto(i, IF ok THEN "open" ELSE "failed")
  /\ UNCHANGED cache
  /\ Frozen

\* _download_dxf: open(cached_dxf, "wb") creates or truncates the file under
\* its final name
_download_dxf_open(i) ==
  /\ At(i, "dxf", "open")
  /\ cache' = [cache EXCEPT !.file = "partial"]
  /\ Goto(i, "write")
  /\ Frozen

\* _download_dxf: dst.write(src.read()) and the end of the with block
_download_dxf_write(i) ==
  /\ At(i, "dxf", "write")
  /\ cache' = [cache EXCEPT !.file = "whole", !.complete = TRUE]
  /\ Goto(i, "read")
  /\ Frozen

\* _parse_dxf_buildings: ezdxf.readfile of the path _download_dxf returned
ezdxf_readfile(i) ==
  /\ At(i, "dxf", "read")
  /\ fetchers' = [fetchers EXCEPT ![i].pc = "done", ![i].used = cache.file,
                                  ![i].used_complete = cache.complete]
  /\ UNCHANGED cache
  /\ Frozen

\* _fetch_subtile, a coroutine: _load_tile_cache returns the list of the
\* file if there is one
_load_tile_cache(i) ==
  /\ At(i, "roads", "check")
  /\ IF cache.file # "absent"
       THEN fetchers' = [fetchers EXCEPT ![i].pc = "done", ![i].used = cache.file,
                                         ![i].used_complete = cache.complete]
       ELSE Goto(i, "get")
  /\ UNCHANGED cache
  /\ Frozen

\* _fetch_subtile: one await client.get of the page loop returns.  An error
\* is retried after a sleep; after the last attempt results is [], which ends
\* the page loop like a short page, and the list is saved.
_fetch_page(i) ==
  LET
    \* _save_tile_cache: the file is opened, dumped and closed with no await in
    \* between; it holds all_results, complete or not
    _save_tile_cache(all_ok) ==
      /\ cache' = [cache EXCEPT !.file = "whole", !.complete = all_ok]
      /\ fetchers' = [fetchers EXCEPT ![i].pc = "done", ![i].all_ok = all_ok]
  IN
    /\ At(i, "roads", "get")
    /\ \/ \E full \in BOOLEAN :
            IF full /\ fetchers[i].page < MaxPages
              THEN /\ fetchers' = [fetchers EXCEPT ![i].page = @ + 1, ![i].attempt = 0]
                   /\ UNCHANGED cache
              ELSE _save_tile_cache(fetchers[i].all_ok)
       \/ IF fetchers[i].attempt < MAX_RETRIES - 1
            THEN /\ fetchers' = [fetchers EXCEPT ![i].attempt = @ + 1]
                 /\ UNCHANGED cache
            ELSE _save_tile_cache(FALSE)
    /\ Frozen

NextCache ==
  \E i \in 1..MaxFetchers :
    \/ download_tile_check(i)
    \/ download_tile_recheck(i)
    \/ download_tile_get(i)
    \/ rasterio_open(i)
    \/ _download_dxf_check(i)
    \/ _download_dxf_get(i)
    \/ _download_dxf_open(i)
    \/ _download_dxf_write(i)
    \/ ezdxf_readfile(i)
    \/ _load_tile_cache(i)
    \/ _fetch_page(i)

SpecCache == InitCache /\ [][NextCache]_vars

\* ------------------------------- the building arrays, from DXF to compaction
\* a face array plus an offset; the owner of a face (tile t, entity e) is
\* kept beside its indices
Shifted(faces, offset) ==
  [k \in 1..Len(faces) |->
     [faces[k] EXCEPT !.idx = <<@[1] + offset, @[2] + offset, @[3] + offset>>]]

\* _parse_dxf_buildings for tile number t: the stacked vertices and faces of
\* the entities it keeps
_parse_dxf_buildings(tile, t) ==
  LET
    Abs(x) == IF x < 0 THEN 0 - x ELSE x

    \* the triangles of one face record: idxN = abs(vtxN) - 1, a quad when vtx3
    \* is given and not 0
    FaceRecord(fr) ==
      LET idx0 == Abs(fr[1]) - 1
          idx1 == Abs(fr[2]) - 1
          idx2 == Abs(fr[3]) - 1
          idx3 == Abs(fr[4]) - 1
      IN IF fr[4] # 0 THEN << <<idx0, idx1, idx2>>, <<idx0, idx2, idx3>> >>
                      ELSE << <<idx0, idx1, idx2>> >>

    RECURSIVE EntityFaces(_)
    EntityFaces(face_recs) ==
      IF face_recs = <<>> THEN <<>>
      ELSE FaceRecord(Head(face_recs)) \o EntityFaces(Tail(face_recs))

    \* the loop body for entity e of the tile; acc is (all_verts, all_faces)
    \* stacked
    ParseEntity(en, e, acc) ==
      IF en.n < 3 \/ en.recs = <<>> THEN acc
      ELSE IF ~en.centroid_in THEN acc
      ELSE LET faces == EntityFaces(en.recs)
               max_idx == SetMax({faces[k][c] : k \in 1..Len(faces), c \in 1..3})
               offset == Len(acc.verts)
           IN IF max_idx >= en.n THEN acc
              ELSE [verts |-> acc.verts \o
                              [i \in 1..en.n |-> [t |-> t, e |-> e, i |-> i - 1, inb |-> en.inb[i]]],
                    faces |-> acc.faces \o
                              Shifted([k \in 1..Len(faces) |-> [idx |-> faces[k], t |-> t, e |-> e]],
                                      offset)]

    \* for entity in msp, from entity e on
    RECURSIVE ParseFrom(_, _)
    ParseFrom(e, acc) ==
      IF e > Len(tile) THEN acc
      ELSE ParseFrom(e + 1, ParseEntity(tile[e], e, acc))
  IN
    ParseFrom(1, [verts |-> <<>>, faces |-> <<>>])

InitBuildings ==
  LET
    \* the tiles a building query may name, as lists of POLYLINE entities
    DxfTileSamples ==
      LET
        \* A POLYLINE polyface mesh of a DXF: n mesh vertices, its face records
        \* <<vtx0, vtx1, vtx2, vtx3>> (1-based references, negative for an invisible
        \* edge, 0 for none), whether its centroid lies in the requested bbox, and
        \* for every vertex whether the generator finds it in bounds.
        Entity(n, recs, centroid_in, inb) ==
          [n |-> n, recs |-> recs, centroid_in |-> centroid_in, inb |-> inb]

        B_ok == Entity(3, << <<1, 2, 3, 0>> >>, TRUE, <<TRUE, TRUE, TRUE>>)

        B_quad == Entity(4, << <<0 - 1, 2, 0 - 3, 4>> >>, TRUE, <<TRUE, TRUE, TRUE, TRUE>>)

        \* one face record names two vertices only
        B_zero == Entity(3, << <<1, 2, 0, 0>>, <<1, 2, 3, 0>> >>, TRUE, <<TRUE, TRUE, TRUE>>)

        B_out == Entity(3, << <<1, 2, 3, 0>> >>, TRUE, <<TRUE, TRUE, FALSE>>)

        B_big == Entity(3, << <<1, 2, 5, 0>> >>, TRUE, <<TRUE, TRUE, TRUE>>)

        B_far == Entity(3, << <<1, 2, 3, 0>> >>, FALSE, <<FALSE, FALSE, FALSE>>)

        B_few == Entity(2, << <<1, 2, 0, 0>> >>, TRUE, <<TRUE, TRUE>>)
      IN
        { <<B_ok>>, <<B_ok, B_quad>>, <<B_zero>>, <<B_ok, B_zero>>, <<B_out, B_ok>>,
          <<B_quad, B_out>>, <<B_big, B_far, B_few>> }

    NoArrays ==
      [all_verts |-> <<>>, all_faces |-> <<>>, verts |-> <<>>, faces |-> <<>>,
       valid_faces |-> <<>>, compact_verts |-> <<>>, compact_faces |-> <<>>]
  IN
    /\ FrontOff
    /\ PermitsOff
    /\ CacheOff
    /\ \E n \in 1..MaxDxfTiles : \E tiles \in [1..n -> DxfTileSamples] :
         dxf = [tiles |-> tiles, t |-> 1, pc |-> "tiles"]
    /\ bld = NoArrays

\* get_building_meshes, one round of the loop over the items: the tile is
\* downloaded and parsed in a thread and its arrays are appended with the
\* offset of the vertices collected so far, or an exception is logged and the
\* tile is left out
BuildingTile ==
  /\ dxf.pc = "tiles"
  /\ \/ LET parsed == _parse_dxf_buildings(dxf.tiles[dxf.t], dxf.t)
            offset == Len(bld.all_verts)
        IN bld' = IF Len(parsed.verts) > 0
                    THEN [bld EXCEPT !.all_verts = @ \o parsed.verts,
                                     !.all_faces = @ \o Shifted(parsed.faces, offset)]
                    ELSE bld
     \/ UNCHANGED bld
  /\ dxf' = [dxf EXCEPT !.t = @ + 1,
                        !.pc = IF dxf.t = Len(dxf.tiles) THEN "stack" ELSE "tiles"]
  /\ UNCHANGED <<jobVars, sliceVars, meshVars, shapeVars, permits, cache, fetchers>>

\* get_building_meshes, after the loop: the stacked arrays (empty ones when
\* nothing was collected) are returned
BuildingStack ==
  /\ dxf.pc = "stack"
  /\ bld' = [bld EXCEPT !.verts = bld.all_verts, !.faces = bld.all_faces]
  /\ dxf' = [dxf EXCEPT !.pc = "fetched"]
  /\ UNCHANGED <<jobVars, sliceVars, meshVars, shapeVars, permits, cache, fetchers>>

\* numpy: the position a (possibly negative) index selects in an array of
\* length n
NpIndex(n, i) == IF i < 0 THEN i + n ELSE i

NpAt(arr, i) == arr[NpIndex(Len(arr), i) + 1]

\* generate_terrain_stl, the building branch: faces with all three vertices
\* in bounds are kept, the vertices they use are compacted and the faces
\* renumbered
BuildingCompact ==
  LET
    \* np.unique: the distinct values in ascending order
    RECURSIVE np_unique(_)
    np_unique(S) ==
      IF S = {} THEN <<>> ELSE LET m == SetMin(S) IN <<m>> \o np_unique(S \ {m})

    \* remap = np.full(V, -1); remap[used_verts] = np.arange(len(used_verts)):
    \* the assignments happen in order, the last one to a position stays
    Remap(V, used_verts) ==
      [p \in 0..V - 1 |->
         LET js == {j \in 1..Len(used_verts) : NpIndex(V, used_verts[j]) = p}
         IN IF js = {} THEN 0 - 1 ELSE SetMax(js) - 1]
  IN
    /\ dxf.pc = "fetched"
    /\ LET V == Len(bld.verts)
           keep(f) == /\ NpAt(bld.verts, f.idx[1]).inb
                      /\ NpAt(bld.verts, f.idx[2]).inb
                      /\ NpAt(bld.verts, f.idx[3]).inb
           valid_faces == SelectSeq(bld.faces, keep)
           used_verts == np_unique({valid_faces[k].idx[c] : k \in 1..Len(valid_faces), c \in 1..3})
           remap == Remap(V, used_verts)
       IN bld' = IF V > 0 /\ Len(bld.faces) > 0 /\ Len(valid_faces) > 0
                   THEN [bld EXCEPT
                           !.valid_faces = valid_faces,
                           !.compact_verts =
                             [j \in 1..Len(used_verts) |-> NpAt(bld.verts, used_verts[j])],
                           !.compact_faces =
                             [k \in 1..Len(valid_faces) |->
                                [valid_faces[k] EXCEPT
                                   !.idx = <<remap[NpIndex(V, @[1])], remap[NpIndex(V, @[2])],
                                             remap[NpIndex(V, @[3])]>>]]]
                   ELSE bld
    /\ dxf' = [dxf EXCEPT !.pc = "compacted"]
    /\ UNCHANGED <<jobVars, sliceVars, meshVars, shapeVars, permits, cache, fetchers>>

NextBuildings == BuildingTile \/ BuildingStack \/ BuildingCompact

SpecBuildings == InitBuildings /\ [][NextBuildings]_vars

\* ----------------------------------------------------------------- claims
GenPcs == {"gen_terrain", "gen_buildings", "gen_check", "gen_save"}

\* the STL file the running generator call of job j writes
GenFile(j) ==
  IF IsGrid(j)
    THEN TileFile(j, TileRow(task[j].request.grid_split, task[j].tile_idx),
                     TileCol(task[j].request.grid_split, task[j].tile_idx))
    ELSE StlFile(j)

FilesOf(j) == {f \in outdir : f[1] = j}

AllTiles(n) == {<<r, c>> : r \in 0..(n - 1), c \in 0..(n - 1)}

\* C1: in a grid job a ZIP exists only once every one of the N*N tiles has
\* produced its STL, a failed grid job has no ZIP, and once the job has failed
\* no further tile is processed and no file is written (so no ZIP ever appears)
C1_ZipOnlyAfterAllTiles ==
  \A j \in Registered :
    IsGrid(j) =>
      /\ jobs[j].status = "failed" => ZipFile(j) \notin outdir
      /\ ZipFile(j) \in outdir =>
           /\ Len(task[j].stl_paths) = task[j].request.grid_split * task[j].request.grid_split
           /\ {task[j].stl_paths[i] : i \in 1..Len(task[j].stl_paths)}
                = AllTiles(task[j].request.grid_split)

C1_FailedGridStops ==
  \A j \in Registered :
    (IsGrid(j) /\ jobs[j].status = "failed") =>
      /\ jobs'[j].status = "failed"
      /\ task'[j].tile_idx = task[j].tile_idx
      /\ task'[j].stl_paths = task[j].stl_paths
      /\ outdir' = outdir

C1_GridFailure == [](C1_ZipOnlyAfterAllTiles) /\ [][C1_FailedGridStops]_vars

\* C1 witness: a grid job has failed in the generator of a later tile, after
\* an earlier tile had produced its STL
C1_Witness ==
  \E j \in Registered :
    /\ IsGrid(j)
    /\ jobs[j].status = "failed"
    /\ jobs[j].message \in {"integrity", "polygon"}
    /\ Len(task[j].stl_paths) >= 1

\* C2 (as claimed): a job one of whose fetches exhausted its attempts never
\* reaches status completed
C2_ExhaustedFetchFailsJob ==
  \A j \in Registered : task[j].exhausted => jobs[j].status # "completed"

\* the samples of full_elevation on an edge of a generated tile, and their z
EdgeSamples(t, side) ==
  CASE side = "north" -> {<<t.src_rows[1], t.src_cols[j]>> : j \in 1..Len(t.src_cols)}
    [] side = "south" -> {<<t.src_rows[Len(t.src_rows)], t.src_cols[j]>> : j \in 1..Len(t.src_cols)}
    [] side = "west" -> {<<t.src_rows[i], t.src_cols[1]>> : i \in 1..Len(t.src_rows)}
    [] side = "east" -> {<<t.src_rows[i], t.src_cols[Len(t.src_cols)]>> : i \in 1..Len(t.src_rows)}

EdgeZ(t, side) ==
  CASE side = "north" -> [j \in 1..Len(t.src_cols) |-> t.z[<<1, j>>]]
    [] side = "south" -> [j \in 1..Len(t.src_cols) |-> t.z[<<Len(t.src_rows), j>>]]
    [] side = "west" -> [i \in 1..Len(t.src_rows) |-> t.z[<<i, 1>>]]
    [] side = "east" -> [i \in 1..Len(t.src_rows) |-> t.z[<<i, Len(t.src_cols)>>]]

Generated == {tile_meshes[i] : i \in 1..Len(tile_meshes)}

\* C3 (as claimed): two generated tiles that share an edge are built from the
\* same elevation samples along it and have the same z values along it
C3_SharedEdgeIdentical ==
  \A a \in Generated, b \in Generated :
    /\ (a.col = b.col /\ b.row = a.row + 1) =>
         /\ EdgeSamples(a, "south") = EdgeSamples(b, "north")
         /\ EdgeZ(a, "south") = EdgeZ(b, "north")
    /\ (a.row = b.row /\ b.col = a.col + 1) =>
         /\ EdgeSamples(a, "east") = EdgeSamples(b, "west")
         /\ EdgeZ(a, "east") = EdgeZ(b, "west")

\* C12: once phase 1 is over global_min_elev is the minimum sample of the full
\* grid, every tile's generator call uses it as its z reference, all tiles have
\* the same base level, and no tile has a height below 0
C12_GlobalMinShared ==
  grid_pc # "phase1" =>
    /\ \A p \in DOMAIN full_elevation.cell : global_min_elev <= full_elevation.cell[p]
    /\ \E p \in DOMAIN full_elevation.cell : global_min_elev = full_elevation.cell[p]
    /\ \A t \in Generated :
         /\ t.min_elev = global_min_elev
         /\ \A q \in DOMAIN t.z : t.z[q] >= 0
    /\ \A a \in Generated, b \in Generated : a.base_z = b.base_z

\* C12 witness: all tiles are generated and one of them lies entirely above
\* the global minimum
C12_Witness ==
  /\ grid_pc = "done"
  /\ Len(tile_meshes) = split_n * split_n
  /\ \E t \in Generated : \A q \in DOMAIN t.z : t.z[q] > 0

Meshed == {shape_out[i] : i \in {k \in 1..Len(shape_out) : shape_out[k].step > 0}}

\* C13 (as claimed): all tiles of one grid job are decimated with the same step
C13_SameStepForAllTiles ==
  \A a \in Meshed, b \in Meshed : a.step = b.step

\* C15: the grid the mesh is built from has at most 1200 rows and columns;
\* a grid whose larger dimension exceeds 1200 is decimated with the least step
\* that is at least that dimension divided by 1200, keeping every step-th row
\* and column from the first, and a smaller grid is used unchanged
C15_DecimatedWithinLimit ==
  \A t \in Meshed :
    LET m == IF t.in_rows >= t.in_cols THEN t.in_rows ELSE t.in_cols
    IN /\ t.rows <= 1200 /\ t.cols <= 1200
       /\ m > 1200 =>
            /\ t.step * 1200 >= m /\ (t.step - 1) * 1200 < m
            /\ (t.rows - 1) * t.step < t.in_rows /\ t.in_rows <= t.rows * t.step
            /\ (t.cols - 1) * t.step < t.in_cols /\ t.in_cols <= t.cols * t.step
       /\ m <= 1200 => t.step = 1 /\ t.rows = t.in_rows /\ t.cols = t.in_cols

\* C15 witness: a grid of more than 1200 rows has been decimated, and a grid
\* of 1200 rows has been left alone
C15_Witness ==
  /\ \E t \in Meshed : t.in_rows > 1200 /\ t.step >= 2 /\ t.rows < t.in_rows
  /\ \E t \in Meshed : t.in_rows = 1200 /\ t.rows = 1200

\* C20 (as claimed): every grid that is meshed, after slicing and decimation,
\* has at least 2 rows and 2 columns
C20_TileAtLeast2x2 ==
  /\ shape_pc # "raised"
  /\ \A t \in Meshed : t.rows >= 2 /\ t.cols >= 2

\* the tiles sliced so far
Sliced == {shape_out[i] : i \in 1..Len(shape_out)}

\* C21: for a full grid with at least n rows and n columns, the row spans
\* [r_start, r_end) of the tile rows start at 0, follow each other without gap
\* or overlap and end at rows; every span but the last has rows div n rows and
\* the last has rows div n + rows mod n; the same for columns
C21_SpansPartitionGrid ==
  (shape_in.rows >= shape_in.n /\ shape_in.cols >= shape_in.n) =>
    LET n == shape_in.n
        R == shape_in.rows
        C == shape_in.cols
    IN /\ \A t \in Sliced :
            /\ t.row = 0 => t.r_start = 0
            /\ t.col = 0 => t.c_start = 0
            /\ t.row = n - 1 => t.r_end = R
            /\ t.col = n - 1 => t.c_end = C
            /\ t.r_end - t.r_start = (IF t.row < n - 1 THEN R \div n ELSE (R \div n) + (R % n))
            /\ t.c_end - t.c_start = (IF t.col < n - 1 THEN C \div n ELSE (C \div n) + (C % n))
       /\ \A a \in Sliced, b \in Sliced :
            /\ b.row = a.row + 1 => b.r_start = a.r_end
            /\ b.col = a.col + 1 => b.c_start = a.c_end
            /\ a.row = b.row => a.r_start = b.r_start /\ a.r_end = b.r_end
            /\ a.col = b.col => a.c_start = b.c_start /\ a.c_end = b.c_end
            /\ a.row # b.row => a.r_end <= b.r_start \/ b.r_end <= a.r_start
            /\ a.col # b.col => a.c_end <= b.c_start \/ b.c_end <= a.c_start
       /\ shape_pc = "done" =>
            \A r \in 0..(n - 1), c \in 0..(n - 1) : \E t \in Sliced : t.row = r /\ t.col = c

\* C21 witness: all tiles of a grid whose rows do not divide by the split are
\* sliced and the last tile row has taken the remainder
C21_Witness ==
  /\ shape_pc = "done"
  /\ shape_in.n >= 2
  /\ shape_in.rows >= shape_in.n
  /\ shape_in.rows % shape_in.n # 0
  /\ \E a \in Sliced, b \in Sliced : b.r_end - b.r_start > a.r_end - a.r_start

\* C22 (as claimed): for a clip outline of 3 or more vertices the polygon walls
\* hold two triangles for every edge of the outline, the closing edge from the
\* last vertex to the first included, whether or not the ring repeats its
\* first vertex at the end
C22_WallsCloseOutline ==
  (gen_pc \in {"integrity", "saved"} /\ gen_out.clip_mask.given
     /\ Len(gen_out.clip_lv95.pts) >= 3) =>
    LET ring == gen_out.clip_lv95.pts
        n == IF ring[1] = ring[Len(ring)] THEN Len(ring) - 1 ELSE Len(ring)
        xy(k) == <<PolyX(ring[k], GenLv95), PolyY(ring[k], GenLv95)>>
        walls == {k \in 1..Len(gen_out.poly_faces) : gen_out.poly_faces[k].part = "poly_wall"}
        on(k, a, b) ==
          \A i \in 1..3 :
            <<gen_out.poly_faces[k].v[i][1], gen_out.poly_faces[k].v[i][2]>> \in {xy(a), xy(b)}
    IN /\ Cardinality(walls) = 2 * n
       /\ \A e \in 1..n :
            Cardinality({k \in walls : on(k, e, (e % n) + 1)}) = 2

\* C29: in every state between two steps of the event loop a job has a
\* download_url exactly when its status is completed, and the status of a
\* completed or failed job never changes again
C29_UrlIffCompletedAndFinal ==
  [][ /\ \A j \in Registered : (jobs[j].download_url # "") <=> (jobs[j].status = "completed")
      /\ \A j \in DOMAIN jobs' : (jobs'[j].download_url # "") <=> (jobs'[j].status = "completed")
      /\ \A j \in Registered :
           jobs[j].status \in {"completed", "failed"} =>
             j \in DOMAIN jobs' /\ jobs'[j].status = jobs[j].status ]_vars

\* C29 witness: a job is completed and has its download_url
C29_Witness ==
  \E j \in Registered :
    /\ jobs[j].status = "completed"
    /\ jobs[j].download_url = "zip"
    /\ task[j].pc = "done"

\* the generator call has built its terrain faces
TerrainBuilt == gen_pc \in {"buildings", "polygon", "integrity", "saved", "raised"}

PartCount(faces, part) == Cardinality({k \in 1..Len(faces) : faces[k].part = part})

\* the three edges of a face in the direction its winding traverses them
DirEdges(f) == {<<f.v[1], f.v[2]>>, <<f.v[2], f.v[3]>>, <<f.v[3], f.v[1]>>}

PartEdges(part) ==
  UNION {DirEdges(gen_out.terrain_faces[k]) :
           k \in {i \in 1..Len(gen_out.terrain_faces) : gen_out.terrain_faces[i].part = part}}

\* C25: in the unclipped solid every grid edge on the perimeter is traversed
\* by its wall triangle in the direction opposite to the top triangle's: the
\* north and east walls run from sample k to sample k + 1 (unflipped), the
\* south and west walls from k + 1 to k (flipped), and the top surface runs
\* the other way on each side
C25_WallsOpposeTop ==
  (TerrainBuilt /\ ~gen_out.clip_mask.given) =>
    LET g == gen_out.grid
        R == g.rows
        C == g.cols
        T(r, c) == TopVertex(g, <<r, c>>)
        top == PartEdges("top")
        opposed(part, a, b) ==
          /\ <<a, b>> \in PartEdges(part) /\ <<b, a>> \notin PartEdges(part)
          /\ <<b, a>> \in top /\ <<a, b>> \notin top
    IN /\ \A k \in 0..(C - 2) : opposed("wall_top", T(0, k), T(0, k + 1))
       /\ \A k \in 0..(C - 2) : opposed("wall_bottom", T(R - 1, k + 1), T(R - 1, k))
       /\ \A k \in 0..(R - 2) : opposed("wall_left", T(k + 1, 0), T(k, 0))
       /\ \A k \in 0..(R - 2) : opposed("wall_right", T(k, C - 1), T(k + 1, C - 1))
       /\ \A part \in {"wall_top", "wall_bottom", "wall_left", "wall_right"} :
            top \cap PartEdges(part) = {}

\* C25 witness: the walls of an unclipped grid of 3 rows or more are built
C25_Witness ==
  /\ gen_pc = "buildings"
  /\ ~gen_out.clip_mask.given
  /\ gen_out.grid.rows >= 3 /\ gen_out.grid.cols >= 3
  /\ PartEdges("wall_left") # {} /\ PartEdges("wall_bottom") # {}

C26_Pre ==
  HeightGrid(Decimate(gen_in.elevation), nanmin(Decimate(gen_in.elevation)),
             GenLv95.max_e - GenLv95.min_e).z

\* whether some ring that is a valid polygon of 3 points or more contains the
\* position of sample p
C26_Covered(p) ==
  \E k \in 1..Len(gen_in.roads) :
    /\ Len(gen_in.roads[k]) >= 3
    /\ PolygonValid(gen_in.roads[k])
    /\ contains_xy(gen_in.roads[k],
                   SampleLv95(gen_out.grid.rows, gen_out.grid.cols, p, GenLv95))

\* C26: after the road emboss every cell under a valid ring is higher by
\* road_raise_mm, once, however many rings cover it, every other cell has its
\* height of before, rings of fewer than 3 points or that are no valid polygon
\* change nothing, and the array the caller passed in is as it was
C26_RoadEmbossOnce ==
  TerrainBuilt =>
    /\ \A p \in Cells(gen_out.grid.rows, gen_out.grid.cols) :
         gen_out.grid.z[p] = C26_Pre[p] + (IF C26_Covered(p) THEN 150 ELSE 0)
    /\ gen_out.z_passed = C26_Pre

\* C26 witness: two rings overlap on a cell that was raised once, next to a
\* cell no ring covers
C26_Witness ==
  /\ gen_pc = "saved"
  /\ Len(gen_in.roads) = 2
  /\ \E p \in Cells(gen_out.grid.rows, gen_out.grid.cols) :
       /\ contains_xy(gen_in.roads[1], SampleLv95(gen_out.grid.rows, gen_out.grid.cols, p, GenLv95))
       /\ contains_xy(gen_in.roads[2], SampleLv95(gen_out.grid.rows, gen_out.grid.cols, p, GenLv95))
       /\ gen_out.grid.z[p] = C26_Pre[p] + 150
  /\ \E p \in Cells(gen_out.grid.rows, gen_out.grid.cols) : gen_out.grid.z[p] = C26_Pre[p]

\* C24: within one job at most 10 terrain downloads and at most 12 road
\* sub-tile fetches are in flight at any moment, however many tasks there
\* are, and every fetch that has returned or raised has given its permit
\* back: the permits left and the fetches in flight add up to the capacity
C24_PermitsBoundFlight ==
  permits.kind # "off" =>
    /\ permits.kind = "terrain" => permits.inflight <= 10
    /\ permits.kind = "roads" => permits.inflight <= 12
    /\ permits.value >= 0
    /\ permits.value + permits.inflight = (IF permits.kind = "terrain" THEN 10 ELSE 12)
    /\ permits.waiting + permits.inflight + permits.done + permits.failed = permits.total

\* C24 witness: 12 road fetches are in flight, another task waits for a
\* permit, and a fetch has raised before
C24_Witness ==
  /\ permits.kind = "roads"
  /\ permits.inflight = 12
  /\ permits.value = 0
  /\ permits.waiting > 0
  /\ permits.failed > 0

\* C23 (as claimed): a fetcher that finds a cache entry and uses it never
\* reads a file another task or thread is still writing: what a fetcher
\* has read was never a file open for writing
C23_CacheReadsWhole ==
  \A i \in DOMAIN fetchers : fetchers[i].used # "partial"

\* C30 (as claimed): the cache entry of a road sub-tile exists only when
\* every page of it was fetched, so a fetch whose retries are exhausted
\* leaves no entry
C30_CachedOnlyWhenComplete ==
  (cache.kind = "roads" /\ cache.file # "absent") => cache.complete

\* C28 (as claimed): every face index of the arrays the building fetcher
\* returns lies in [0, V), and after the buildings and tiles are stacked
\* every face references only vertices of its own building, whatever the
\* vertex references of the DXF face records are
C28_FacesStayInOwnBuilding ==
  dxf.pc \in {"fetched", "compacted"} =>
    \A k \in 1..Len(bld.faces) : \A c \in 1..3 :
      LET i == bld.faces[k].idx[c]
      IN /\ i >= 0
         /\ i < Len(bld.verts)
         /\ bld.verts[i + 1].t = bld.faces[k].t
         /\ bld.verts[i + 1].e = bld.faces[k].e

\* C27 (as claimed): after the filter and the compaction every index of the
\* compacted faces lies in [0, V'), every compacted vertex is referenced by
\* a kept face, and every kept face has the three vertices it had before
C27_CompactionExact ==
  dxf.pc = "compacted" =>
    LET cv == bld.compact_verts
        cf == bld.compact_faces
    IN /\ \A k \in 1..Len(cf) : \A c \in 1..3 : cf[k].idx[c] >= 0 /\ cf[k].idx[c] < Len(cv)
       /\ \A j \in 1..Len(cv) : \E k \in 1..Len(cf) : \E c \in 1..3 : cf[k].idx[c] = j - 1
       /\ \A k \in 1..Len(cf) : \A c \in 1..3 :
            cv[cf[k].idx[c] + 1] = NpAt(bld.verts, bld.valid_faces[k].idx[c])

\* C11 (as claimed): without a clip mask the terrain solid is watertight once
\* coincident vertices are merged: every edge is used by exactly two faces
C11_TerrainSolidWatertight ==
  (TerrainBuilt /\ ~gen_out.clip_mask.given) =>
    LET faces == _fix_normals_global(gen_out.terrain_faces)
    IN /\ boundary_edges(faces) = 0
       /\ \A k \in 1..Len(faces) : \A e \in FaceEdges(faces[k]) : edge_use(faces, e) = 2

\* C16: without a clip mask _build_terrain_faces emits 2*(rows-1)*(cols-1) top
\* triangles, 2 bottom triangles and 2*(n-1) wall triangles on each of the four
\* edges, n the number of samples on the edge
C16_FaceCountNoClip ==
  (TerrainBuilt /\ ~gen_out.clip_mask.given) =>
    LET f == gen_out.terrain_faces
        r == gen_out.grid.rows
        c == gen_out.grid.cols
    IN /\ PartCount(f, "top") = 2 * (r - 1) * (c - 1)
       /\ PartCount(f, "bottom") = 2
       /\ PartCount(f, "wall_top") = 2 * (c - 1)
       /\ PartCount(f, "wall_bottom") = 2 * (c - 1)
       /\ PartCount(f, "wall_left") = 2 * (r - 1)
       /\ PartCount(f, "wall_right") = 2 * (r - 1)
       /\ Len(f) = 2 * (r - 1) * (c - 1) + 2 + 4 * (r - 1) + 4 * (c - 1)

\* C16 witness: the faces of a 3 x 4 grid without clip mask have been built
C16_Witness ==
  /\ gen_pc = "saved"
  /\ ~gen_out.clip_mask.given
  /\ gen_out.grid.rows = 3 /\ gen_out.grid.cols = 4
  /\ Len(gen_out.terrain_faces) = 34

C17_FourCornersInside(c) ==
  \A d \in {<<0, 0>>, <<0, 1>>, <<1, 0>>, <<1, 1>>} :
    gen_out.clip_mask.inside[<<c[1] + d[1], c[2] + d[2]>>]

C17_Cells == (0..(gen_out.grid.rows - 2)) \X (0..(gen_out.grid.cols - 2))

\* C17: with a clip mask the two top triangles of a cell are emitted exactly
\* when its four corners are inside the mask, and nothing but top triangles is
\* emitted: no bottom plate, no rectangular wall
C17_FacesUnderClipMask ==
  (TerrainBuilt /\ gen_out.clip_mask.given) =>
    LET f == gen_out.terrain_faces
        g == gen_out.grid
        has(t) == \E k \in 1..Len(f) : f[k].v = t
        tl(c) == TopVertex(g, c)
        bl(c) == TopVertex(g, <<c[1] + 1, c[2]>>)
        tr(c) == TopVertex(g, <<c[1], c[2] + 1>>)
        br(c) == TopVertex(g, <<c[1] + 1, c[2] + 1>>)
    IN /\ \A k \in 1..Len(f) : f[k].part = "top"
       /\ Len(f) = 2 * Cardinality({c \in C17_Cells : C17_FourCornersInside(c)})
       /\ \A c \in C17_Cells :
            /\ has(<<tl(c), bl(c), tr(c)>>) <=> C17_FourCornersInside(c)
            /\ has(<<tr(c), bl(c), br(c)>>) <=> C17_FourCornersInside(c)

\* C17 witness: a clip mask kept some cells of the grid and dropped others
C17_Witness ==
  /\ gen_pc = "saved"
  /\ gen_out.clip_mask.given
  /\ Len(gen_out.terrain_faces) > 0
  /\ Len(gen_out.terrain_faces) < 2 * (gen_out.grid.rows - 1) * (gen_out.grid.cols - 1)

BuildingsDone == gen_pc \in {"polygon", "integrity", "saved"}

C18_InBounds(v) ==
  /\ v[1] >= 0 - 500 /\ v[1] <= ModelWidthMm * 1000 + 500
  /\ v[2] >= 0 - 500 /\ v[2] <= HeightUm + 500

C18_Mapped(k) ==
  [i \in 1..3 |->
     BuildingVertex(gen_in.buildings.verts[gen_in.buildings.faces[k][i]], GenLv95,
                    nanmin(gen_in.elevation))]

C18_Eligible(k) ==
  \A i \in 1..3 :
    /\ C18_InBounds(C18_Mapped(k)[i])
    /\ PolygonValid(gen_out.clip_lv95.pts) =>
         contains_xy(gen_out.clip_lv95.pts,
                     gen_in.buildings.verts[gen_in.buildings.faces[k][i]])

\* C18: the building faces appended to the output are exactly the input faces
\* whose three mapped vertices are within 0.5 mm of the model rectangle (and
\* inside a valid clip polygon); a face with a vertex outside is absent
C18_BuildingBoundsFilter ==
  BuildingsDone =>
    /\ \A k \in 1..Len(gen_out.building_faces) :
         \A i \in 1..3 : C18_InBounds(gen_out.building_faces[k].v[i])
    /\ {gen_out.building_faces[k].v : k \in 1..Len(gen_out.building_faces)}
         = {C18_Mapped(k) : k \in {m \in 1..Len(gen_in.buildings.faces) : C18_Eligible(m)}}

\* C18 witness: some building faces were kept and some were dropped
C18_Witness ==
  /\ gen_pc = "saved"
  /\ Len(gen_out.building_faces) > 0
  /\ Len(gen_out.building_faces) < Len(gen_in.buildings.faces)

\* C19 (as claimed): with an invalid clip polygon (empty, fewer than 3 points
\* or self-intersecting) the faces are those of a call without clip polygon:
\* full top surface, bottom plate, four walls, no polygon wall or base
C19_InvalidClipAsNoClip ==
  (gen_pc = "saved" /\ gen_in.clip_polygon.given
     /\ ~PolygonValid(_convert_clip_polygon(gen_in.clip_polygon).pts)) =>
    /\ gen_out.poly_faces = <<>>
    /\ gen_out.all_face_data
         = _fix_normals_global(_build_terrain_faces(gen_out.grid, NoMask)
                                 \o gen_out.building_faces)

\* C4 (as claimed): a failed job has no file of its own in the served
\* output directory
C4_NoFileOfFailedJob ==
  \A j \in Registered : jobs[j].status = "failed" => FilesOf(j) = {}

IsPrefix(s, t) == Len(s) <= Len(t) /\ \A i \in 1..Len(s) : s[i] = t[i]

PhaseEvents(ph) == << <<"start", ph>>, <<"end", ph>> >>

C5_ExpectedLog(req) ==
  PhaseEvents("terrain")
    \o (IF req.include_buildings THEN PhaseEvents("buildings") ELSE <<>>)
    \o (IF req.include_roads THEN PhaseEvents("roads") ELSE <<>>)
    \o PhaseEvents("stl")

\* C5: in a single-tile job the phases start and end in the order terrain,
\* buildings (if requested), roads (if requested), STL generation, each one
\* starting only after the one before it has ended
C5_PhasesSequential ==
  \A j \in Registered :
    ~IsGrid(j) => IsPrefix(phaseLog[j], C5_ExpectedLog(task[j].request))

\* C5 witness: a single-tile job with buildings and roads has run all four
\* phases to the end
C5_Witness ==
  \E j \in Registered :
    /\ ~IsGrid(j)
    /\ task[j].request.include_buildings /\ task[j].request.include_roads
    /\ jobs[j].status = "completed"
    /\ Len(phaseLog[j]) = 8

C6_Invalid(b) ==
  \/ b.min_lon < 590 \/ b.min_lon > 1050 \/ b.max_lon < 590 \/ b.max_lon > 1050
  \/ b.min_lat < 4580 \/ b.min_lat > 4790 \/ b.max_lat < 4580 \/ b.max_lat > 4790
  \/ b.min_lon >= b.max_lon \/ b.min_lat >= b.max_lat
  \/ estimate_area_m2(b) > 100 * 1000000

\* C6: a POST /generate whose bounding box is outside Switzerland, inverted
\* or larger than 100 km2 is answered 400, leaves the registry unchanged and
\* schedules no background task
C6_InvalidBBoxRejected ==
  [][(http' # http /\ C6_Invalid(http'.bbox)) =>
       (http'.code = 400 /\ jobs' = jobs /\ scheduled' = scheduled /\ task' = task)]_vars

\* C6 witness: with a job registered, a box inside Switzerland, not inverted,
\* of more than 100 km2 has been answered 400
C6_Witness ==
  /\ Registered # {}
  /\ http.code = 400
  /\ BBoxInSwitzerland(http.bbox) /\ ~BBoxInverted(http.bbox)
  /\ C6_Invalid(http.bbox)

\* C7 (as claimed): generate_terrain_stl is never running with a clip polygon
\* of fewer than 3 points
C7_GeneratorClipHas3Points ==
  \A j \in Registered :
    (task[j].pc \in GenPcs /\ task[j].clip_lv95.given) => Len(task[j].clip_lv95.pts) >= 3

C8_ClipActive(j) ==
  task[j].request.clip_polygon.given /\ task[j].request.clip_polygon.pts # <<>>

\* C8: the generator passes its integrity check exactly when not
\* (boundary_edges > 400000 and no clip polygon active); when it raised the
\* integrity error, boundary_edges > 400000, no clip polygon was active and
\* the STL of that generator call has not been written
C8_IntegrityPolicy ==
  \A j \in Registered :
    /\ task[j].pc = "gen_save" =>
         ~(task[j].boundary_edges > 400000 /\ ~C8_ClipActive(j))
    /\ (jobs[j].status = "failed" /\ jobs[j].message = "integrity") =>
         /\ task[j].boundary_edges > 400000
         /\ ~C8_ClipActive(j)
         /\ GenFile(j) \notin outdir
    /\ (task[j].pc = "failed" /\ task[j].boundary_edges > 400000 /\ ~C8_ClipActive(j)) =>
         jobs[j].message = "integrity"

\* C8 witness: the integrity error was raised
C8_Witness ==
  \E j \in Registered : jobs[j].status = "failed" /\ jobs[j].message = "integrity"

C9_InRange(v) == 0 <= v /\ v <= 100 * PScale

\* C9 (as claimed): every progress value of a job is in [0, 100] and no write
\* lowers it, whatever the outcome of the job
C9_ProgressMonotone ==
  [][\A j \in Registered :
       C9_InRange(jobs'[j].progress) /\ jobs'[j].progress >= jobs[j].progress]_vars

\* C9 (amended): every progress value of a job is in [0, 100], and the only
\* write that lowers it is the reset to 0 with which process_job marks the
\* job failed
C9_ProgressMonotoneUntilFailure ==
  [][\A j \in Registered :
       /\ C9_InRange(jobs'[j].progress)
       /\ \/ jobs'[j].progress >= jobs[j].progress
          \/ /\ jobs[j].status # "failed"
             /\ jobs'[j].status = "failed"
             /\ jobs'[j].progress = 0]_vars

\* C9 witness: a grid job failed after a tile was written (progress at least
\* 20 + 70 / N*N) and its progress is back to 0
C9_Witness ==
  \E j \in Registered :
    jobs[j].status = "failed" /\ Len(task[j].stl_paths) >= 1 /\ jobs[j].progress = 0

\* C10 (as claimed): an exception of the progress sink never fails a job
C10_SinkExceptionSwallowed ==
  \A j \in Registered : ~(jobs[j].status = "failed" /\ jobs[j].message = "sink")
====
